---- MODULE Spec2Model ----
(***************************************************************************)
(* trainer-pro backend: the session lifecycle, the active-session resolver,*)
(* the payment reconciliation engine and the exercise records, as a state  *)
(* machine over the rows of clients, training_sessions, session_groups,    *)
(* payments, exercise_templates, exercise_sets and session_exercises.      *)
(*                                                                         *)
(* Every request handler is one action.  Read-only handlers are operators  *)
(* over the current rows.  "last" holds the request that was served last   *)
(* and its response.  Timestamps are integers; NULL is 0.                  *)
(***************************************************************************)
EXTENDS Integers, Sequences, FiniteSets, TLC

VARIABLES sessions, groups, payments, now, last,
          clients, exercise_templates, exercise_sets, session_exercises, next_id,
          in_flight

(* The tables of the exercise records and their id sequences. *)
exercise_vars == <<exercise_templates, exercise_sets, session_exercises, next_id>>

vars == <<sessions, groups, payments, now, last, clients, exercise_vars, in_flight>>

----------------------------------------------------------------------------
(* Bounds of the model *)

(* The number of session rows, the number of session rows in the payment *)
(* specification, and the last value of the clock.                       *)
MaxSessions == 3
MaxPaySessions == 2
MaxTime == 3

(* The number of ids the table of session exercises hands out. *)
MaxExercises == 2

----------------------------------------------------------------------------
(* Program constants *)

NULL == 0

SCHEDULED == "scheduled"
IN_PROGRESS == "in_progress"
COMPLETED == "completed"
CANCELLED == "cancelled"

SessionStatus == {SCHEDULED, IN_PROGRESS, COMPLETED, CANCELLED}

HTTP_200_OK == 200
HTTP_201_CREATED == 201
HTTP_204_NO_CONTENT == 204
HTTP_403_FORBIDDEN == 403
HTTP_404_NOT_FOUND == 404
HTTP_422_UNPROCESSABLE == 422
HTTP_500_INTERNAL == 500

SessionsPaidMin == 1
SessionsPaidMax == 100
AmountCopMin == 0

----------------------------------------------------------------------------
(* The trainers and clients that exist.  Client 1 and 2 belong to trainer 1,*)
(* client 3 to trainer 2.                                                  *)

Trainers == {1, 2}
Clients == {1, 2, 3}

ClientTrainer(c) == IF c = 3 THEN 2 ELSE 1

(* The trainer apps that exist: app 1 belongs to trainer 1, app 2 to trainer 2. *)
Apps == {1, 2}

AppTrainer(a) == a

LAP_TIMES_NAME == "Toma de Tiempo BMX"

----------------------------------------------------------------------------
(* Helpers *)

Min(a, b) == IF a < b THEN a ELSE b

Max(a, b) == IF a > b THEN a ELSE b

RECURSIVE SeqSum(_)
SeqSum(q) == IF q = <<>> THEN 0 ELSE Head(q) + SeqSum(Tail(q))

Ids(S) == DOMAIN S

(* The response of the request served last. *)
Response(op, req, kind, id, code) ==
    [op |-> op, req |-> req, kind |-> kind, id |-> id, code |-> code]

----------------------------------------------------------------------------
(* Rows *)

TrainingSession(t, c, g, sched, started, st) ==
    [trainer_id |-> t, client_id |-> c, session_group_id |-> g,
     scheduled_at |-> sched, started_at |-> started, status |-> st,
     is_paid |-> FALSE, paid_at |-> NULL, location_id |-> NULL]

SessionGroup(t, sched) == [trainer_id |-> t, scheduled_at |-> sched]

Payment(c, t, k, amt) ==
    [client_id |-> c, trainer_id |-> t, sessions_paid |-> k, amount_cop |-> amt]

Client(t) == [trainer_id |-> t, name |-> "a", deleted_at |-> NULL]

(* The register-payment requests that can be in progress at once, and the   *)
(* position of one of them: its request, the rows its query returned and    *)
(* the time it stamps on them.                                              *)
Requests == {1, 2}

InFlight(pc, req, X, t) == [pc |-> pc, req |-> req, X |-> X, at |-> t]

Idle == InFlight("idle", [trainer_id |-> NULL, client_id |-> NULL,
                          sessions_paid |-> 0, amount_cop |-> 0], {}, NULL)

Init ==
    /\ sessions = <<>>
    /\ groups = <<>>
    /\ payments = <<>>
    /\ now = 1
    /\ last = Response("none", <<>>, "none", NULL, 0)
    /\ clients = [c \in Clients |-> Client(ClientTrainer(c))]
    /\ exercise_templates = <<>>
    /\ exercise_sets = <<>>
    /\ session_exercises = <<>>
    /\ next_id = [exercise_template |-> 1, exercise_set |-> 1, session_exercise |-> 1]
    /\ in_flight = [r \in Requests |-> Idle]

----------------------------------------------------------------------------
(* clients.py *)

(* _get_client_owned_by: 0 when the client is found and owned. *)
get_client_owned_by(c, tr) ==
    IF c \notin Clients THEN HTTP_404_NOT_FOUND
    ELSE IF ClientTrainer(c) # tr THEN HTTP_403_FORBIDDEN
    ELSE 0

(* The status filter of the balance and of the payment candidates. *)
BillableStatuses == {COMPLETED, SCHEDULED, IN_PROGRESS}

(* sessions_query of get_client_payment_balance *)
sessions_query(S, c) ==
    {i \in Ids(S) : S[i].client_id = c /\ S[i].status \in BillableStatuses}

(* payments_query without the client filter *)
payments_query_all_clients(P, c) ==
    SeqSum([i \in Ids(P) |-> P[i].sessions_paid])

(* select(func.sum(Payment.sessions_paid)).where(Payment.client_id == c) *)
payments_query(P, c) ==
    SeqSum([i \in Ids(P) |-> IF P[i].client_id = c THEN P[i].sessions_paid ELSE 0])

(* amount_query summing the wrong column *)
amount_query_sessions_paid(P, c) ==
    SeqSum([i \in Ids(P) |-> IF P[i].client_id = c THEN P[i].sessions_paid ELSE 0])

(* select(func.sum(Payment.amount_cop)).where(Payment.client_id == c) *)
amount_query(P, c) ==
    SeqSum([i \in Ids(P) |-> IF P[i].client_id = c THEN P[i].amount_cop ELSE 0])

get_client_payment_balance(S, P, c) ==
    LET rows == sessions_query(S, c)
        total_sessions == Cardinality(rows)
        paid_sessions == Cardinality({i \in rows : S[i].is_paid})
        unpaid_sessions == total_sessions - paid_sessions
        total_paid_through_payments == payments_query(P, c)
        total_amount_paid_cop == amount_query(P, c)
        prepaid_sessions == Max(0, total_paid_through_payments - total_sessions)
    IN [total_sessions |-> total_sessions,
        paid_sessions |-> paid_sessions,
        unpaid_sessions |-> unpaid_sessions,
        prepaid_sessions |-> prepaid_sessions,
        has_positive_balance |-> prepaid_sessions > 0,
        total_amount_paid_cop |-> total_amount_paid_cop]

(* unpaid_candidates without the client filter *)
unpaid_candidates_all_clients(S, c) ==
    {i \in Ids(S) : ~S[i].is_paid /\ S[i].status \in BillableStatuses}

(* unpaid_candidates without the status filter *)
unpaid_candidates_any_status(S, c) ==
    {i \in Ids(S) : S[i].client_id = c /\ ~S[i].is_paid}

(* The candidate rows of unpaid_sessions_query, before ordering and limit. *)
unpaid_candidates(S, c) ==
    {i \in Ids(S) : S[i].client_id = c /\ ~S[i].is_paid
                    /\ S[i].status \in BillableStatuses}

(* unpaid_sessions_query with the order reversed: newest first. *)
unpaid_sessions_query_desc(S, c, k) ==
    LET U == unpaid_candidates(S, c)
    IN {X \in SUBSET U :
          /\ Cardinality(X) = Min(k, Cardinality(U))
          /\ \A i \in X, j \in U \ X : S[i].scheduled_at >= S[j].scheduled_at}

(* unpaid_sessions_query: order_by(scheduled_at.asc()).limit(k).  The store *)
(* breaks ties of scheduled_at in any order, so the result is any set of   *)
(* min(k, candidates) rows none of which is later than a row left out.     *)
unpaid_sessions_query(S, c, k) ==
    LET U == unpaid_candidates(S, c)
    IN {X \in SUBSET U :
          /\ Cardinality(X) = Min(k, Cardinality(U))
          /\ \A i \in X, j \in U \ X : S[i].scheduled_at <= S[j].scheduled_at}

(* The status of GET /clients/{client_id}/payment-balance for a caller. *)
get_client_payment_balance_status(tr, c) ==
    IF get_client_owned_by(c, tr) # 0 THEN get_client_owned_by(c, tr) ELSE HTTP_200_OK

(* PaymentCreate without the upper bound of sessions_paid. *)
PaymentCreateValid_min_only(k, amt) ==
    /\ k >= SessionsPaidMin
    /\ amt >= AmountCopMin

(* PaymentCreate: sessions_paid ge=1 le=100, amount_cop ge=0 *)
PaymentCreateValid(k, amt) ==
    /\ k >= SessionsPaidMin
    /\ k <= SessionsPaidMax
    /\ amt >= AmountCopMin

(* mark_paid that sets is_paid and leaves paid_at as it is *)
mark_paid_no_stamp(S, X, t) ==
    [i \in Ids(S) |-> IF i \in X THEN [S[i] EXCEPT !.is_paid = TRUE] ELSE S[i]]

(* The loop that marks the selected rows. *)
mark_paid(S, X, t) ==
    [i \in Ids(S) |-> IF i \in X THEN [S[i] EXCEPT !.is_paid = TRUE, !.paid_at = t]
                                 ELSE S[i]]

(* register_client_payment_body that swallows the store error of the      *)
(* marking step and returns the payment.                                   *)
register_client_payment_body_swallow(S, P, c, k, amt, X, t, flush_ok) ==
    [sessions |-> IF flush_ok THEN mark_paid(S, X, t) ELSE S,
     payments |-> Append(P, Payment(c, ClientTrainer(c), k, amt)),
     raised |-> FALSE]

(* The body of register_client_payment on the request's session of the     *)
(* store: the rows as the handler leaves them and whether it raised.       *)
(* flush_ok = FALSE is a store error raised by db.flush().                 *)
register_client_payment_body(S, P, c, k, amt, X, t, flush_ok) ==
    [sessions |-> mark_paid(S, X, t),
     payments |-> Append(P, Payment(c, ClientTrainer(c), k, amt)),
     raised |-> ~flush_ok]

(* get_db: the request's transaction is committed when the handler returns *)
(* and rolled back when it raises.                                         *)
get_db(S, P, tx) ==
    IF tx.raised THEN [sessions |-> S, payments |-> P]
                 ELSE [sessions |-> tx.sessions, payments |-> tx.payments]

PaymentRequest(tr, c, k, amt) ==
    [trainer_id |-> tr, client_id |-> c, sessions_paid |-> k, amount_cop |-> amt]

register_client_payment(tr, c, k, amt, flush_ok) ==
    LET req == PaymentRequest(tr, c, k, amt)
    IN
    /\ now < MaxTime
    /\ UNCHANGED <<groups, clients, exercise_vars>>
    /\ IF ~PaymentCreateValid(k, amt)
       THEN /\ UNCHANGED in_flight
            /\ last' = Response("register_client_payment", req, "none", NULL,
                                HTTP_422_UNPROCESSABLE)
            /\ UNCHANGED <<sessions, payments, now>>
       ELSE IF get_client_owned_by(c, tr) # 0
       THEN /\ UNCHANGED in_flight
            /\ last' = Response("register_client_payment", req, "none", NULL,
                                get_client_owned_by(c, tr))
            /\ UNCHANGED <<sessions, payments, now>>
       ELSE \E X \in unpaid_sessions_query(sessions, c, k) :
              LET tx == register_client_payment_body(sessions, payments, c, k, amt,
                                                     X, now, flush_ok)
                  db == get_db(sessions, payments, tx)
              IN /\ sessions' = db.sessions
                 /\ payments' = db.payments
                 /\ now' = IF tx.raised THEN now ELSE now + 1
                 /\ UNCHANGED in_flight
                 /\ last' = IF tx.raised
                            THEN Response("register_client_payment", req, "none", NULL,
                                          HTTP_500_INTERNAL)
                            ELSE Response("register_client_payment", req, "payment",
                                          Len(payments) + 1, HTTP_201_CREATED)

(* register_client_payment as the statements it sends to the store, for    *)
(* requests that run at the same time.  Each request has its own           *)
(* transaction; a statement sees the rows committed so far.                *)

(* Up to the await of db.execute(unpaid_sessions_query): validation, the   *)
(* ownership check and the SELECT, which takes no row lock.                *)
register_client_payment_select(r, tr, c, k, amt) ==
    LET req == PaymentRequest(tr, c, k, amt)
    IN
    /\ in_flight[r].pc = "idle"
    /\ UNCHANGED <<sessions, payments, now, groups, clients, exercise_vars>>
    /\ IF ~PaymentCreateValid(k, amt)
       THEN /\ last' = Response("register_client_payment", req, "none", NULL,
                                HTTP_422_UNPROCESSABLE)
            /\ UNCHANGED in_flight
       ELSE IF get_client_owned_by(c, tr) # 0
       THEN /\ last' = Response("register_client_payment", req, "none", NULL,
                                get_client_owned_by(c, tr))
            /\ UNCHANGED in_flight
       ELSE \E X \in unpaid_sessions_query(sessions, c, k) :
              /\ in_flight' = [in_flight EXCEPT ![r] = InFlight("selected", req, X, NULL)]
              /\ UNCHANGED last

(* The rows another request has updated and not yet committed. *)
locked_rows(F, r) ==
    UNION {F[q].X : q \in {q \in DOMAIN F : q # r /\ F[q].pc = "flushed"}}

(* The marking loop and db.flush(): one UPDATE by primary key per selected *)
(* row.  The UPDATE waits while another transaction holds the row, and     *)
(* then writes the row whatever its is_paid has become.                    *)
register_client_payment_flush(r) ==
    /\ in_flight[r].pc = "selected"
    /\ now < MaxTime
    /\ in_flight[r].X \cap locked_rows(in_flight, r) = {}
    /\ in_flight' = [in_flight EXCEPT ![r].pc = "flushed", ![r].at = now]
    /\ now' = now + 1
    /\ UNCHANGED <<sessions, payments, last, groups, clients, exercise_vars>>

(* The return of the handler and the commit of the request's transaction:  *)
(* the payment row and the marked rows become visible together.            *)
register_client_payment_commit(r) ==
    LET f == in_flight[r]
        tx == register_client_payment_body(sessions, payments, f.req.client_id,
                                           f.req.sessions_paid, f.req.amount_cop,
                                           f.X, f.at, TRUE)
        db == get_db(sessions, payments, tx)
    IN /\ f.pc = "flushed"
       /\ sessions' = db.sessions
       /\ payments' = db.payments
       /\ in_flight' = [in_flight EXCEPT ![r] = Idle]
       /\ last' = Response("register_client_payment", f.req, "payment",
                           Len(payments) + 1, HTTP_201_CREATED)
       /\ UNCHANGED <<now, groups, clients, exercise_vars>>

(* update_client: setattr for the fields of ClientUpdate that are set *)
update_client(tr, c, name) ==
    LET req == [trainer_id |-> tr, client_id |-> c]
    IN
    /\ UNCHANGED <<sessions, groups, payments, now, exercise_vars>>
    /\ IF get_client_owned_by(c, tr) # 0
       THEN /\ UNCHANGED in_flight
            /\ last' = Response("update_client", req, "none", NULL,
                                get_client_owned_by(c, tr))
            /\ clients' = clients
       ELSE /\ clients' = [clients EXCEPT ![c].name = name]
            /\ UNCHANGED in_flight
            /\ last' = Response("update_client", req, "client", c, HTTP_200_OK)

(* delete_client that removes the row, with the ON DELETE CASCADE of the   *)
(* payments of the client.                                                 *)
delete_client_hard(tr, c) ==
    LET req == [trainer_id |-> tr, client_id |-> c]
    IN
    /\ now < MaxTime
    /\ UNCHANGED <<sessions, groups, exercise_vars>>
    /\ IF get_client_owned_by(c, tr) # 0
       THEN /\ UNCHANGED in_flight
            /\ last' = Response("delete_client", req, "none", NULL,
                                get_client_owned_by(c, tr))
            /\ UNCHANGED <<clients, payments, now>>
       ELSE /\ clients' = [clients EXCEPT ![c].deleted_at = now]
            /\ payments' = SelectSeq(payments, LAMBDA p : p.client_id # c)
            /\ now' = now + 1
            /\ UNCHANGED in_flight
            /\ last' = Response("delete_client", req, "none", NULL, HTTP_204_NO_CONTENT)

(* delete_client: client.deleted_at = datetime.now(UTC) *)
delete_client(tr, c) ==
    LET req == [trainer_id |-> tr, client_id |-> c]
    IN
    /\ now < MaxTime
    /\ UNCHANGED <<sessions, groups, payments, exercise_vars>>
    /\ IF get_client_owned_by(c, tr) # 0
       THEN /\ UNCHANGED in_flight
            /\ last' = Response("delete_client", req, "none", NULL,
                                get_client_owned_by(c, tr))
            /\ UNCHANGED <<clients, now>>
       ELSE /\ clients' = [clients EXCEPT ![c].deleted_at = now]
            /\ now' = now + 1
            /\ UNCHANGED in_flight
            /\ last' = Response("delete_client", req, "none", NULL, HTTP_204_NO_CONTENT)

----------------------------------------------------------------------------
(* sessions.py *)

UNSET == -1

(* The rows a list of client ids adds for one trainer, group and status. *)
(* SessionsFor that stops after the first client id *)
SessionsFor_first_only(t, cids, g, sched, started, st) ==
    <<TrainingSession(t, cids[1], g, sched, started, st)>>

SessionsFor(t, cids, g, sched, started, st) ==
    [i \in 1..Len(cids) |-> TrainingSession(t, cids[i], g, sched, started, st)]

create_session(t, c, sched, st) ==
    /\ Len(sessions) < MaxSessions
    /\ sessions' = Append(sessions, TrainingSession(t, c, NULL, sched, NULL, st))
    /\ UNCHANGED in_flight
    /\ last' = Response("create_session", [client_id |-> c], "session",
                        Len(sessions) + 1, HTTP_201_CREATED)
    /\ UNCHANGED <<groups, payments, now, clients, exercise_vars>>

(* create_session with the location_id of the request set *)
create_session_at(t, c, loc, sched, st) ==
    /\ Len(sessions) < MaxSessions
    /\ sessions' = Append(sessions,
                          [TrainingSession(t, c, NULL, sched, NULL, st)
                               EXCEPT !.location_id = loc])
    /\ UNCHANGED in_flight
    /\ last' = Response("create_session", [client_id |-> c], "session",
                        Len(sessions) + 1, HTTP_201_CREATED)
    /\ UNCHANGED <<groups, payments, now, clients, exercise_vars>>

(* setattr(session, field, value) for every field the request sets *)
apply_update(s, data) ==
    [s EXCEPT !.client_id = IF data.client_id # UNSET THEN data.client_id ELSE @,
              !.scheduled_at = IF data.scheduled_at # UNSET THEN data.scheduled_at ELSE @,
              !.started_at = IF data.started_at # UNSET THEN data.started_at ELSE @,
              !.status = IF data.status # "unset" THEN data.status ELSE @]

update_session(id, data) ==
    /\ IF id \notin Ids(sessions)
       THEN /\ UNCHANGED in_flight
            /\ last' = Response("update_session", [session_id |-> id], "none", NULL,
                                HTTP_404_NOT_FOUND)
            /\ sessions' = sessions
       ELSE /\ sessions' = [sessions EXCEPT ![id] = apply_update(@, data)]
            /\ UNCHANGED in_flight
            /\ last' = Response("update_session", [session_id |-> id], "session", id,
                                HTTP_200_OK)
    /\ UNCHANGED <<groups, payments, now, clients, exercise_vars>>

(* delete_session that also clears the payment of the session *)
delete_session_unpaid(id) ==
    /\ IF id \notin Ids(sessions)
       THEN /\ UNCHANGED in_flight
            /\ last' = Response("delete_session", [session_id |-> id], "none", NULL,
                                HTTP_404_NOT_FOUND)
            /\ sessions' = sessions
       ELSE /\ sessions' = [sessions EXCEPT ![id].status = CANCELLED,
                                            ![id].is_paid = FALSE,
                                            ![id].paid_at = NULL]
            /\ UNCHANGED in_flight
            /\ last' = Response("delete_session", [session_id |-> id], "none", NULL,
                                HTTP_204_NO_CONTENT)
    /\ UNCHANGED <<groups, payments, now, clients, exercise_vars>>

delete_session(id) ==
    /\ IF id \notin Ids(sessions)
       THEN /\ UNCHANGED in_flight
            /\ last' = Response("delete_session", [session_id |-> id], "none", NULL,
                                HTTP_404_NOT_FOUND)
            /\ sessions' = sessions
       ELSE /\ sessions' = [sessions EXCEPT ![id].status = CANCELLED]
            /\ UNCHANGED in_flight
            /\ last' = Response("delete_session", [session_id |-> id], "none", NULL,
                                HTTP_204_NO_CONTENT)
    /\ UNCHANGED <<groups, payments, now, clients, exercise_vars>>

(* toggle_payment that stamps paid_at on every toggle and never clears it *)
toggle_payment_always_stamped(s, t) ==
    [s EXCEPT !.is_paid = ~@, !.paid_at = t]

(* session.is_paid = not session.is_paid; paid_at = utcnow() if is_paid else None *)
toggle_payment(s, t) ==
    [s EXCEPT !.is_paid = ~@, !.paid_at = IF ~s.is_paid THEN t ELSE NULL]

toggle_session_payment(id) ==
    /\ now < MaxTime
    /\ IF id \notin Ids(sessions)
       THEN /\ UNCHANGED in_flight
            /\ last' = Response("toggle_session_payment", [session_id |-> id], "none",
                                NULL, HTTP_404_NOT_FOUND)
            /\ UNCHANGED <<sessions, now>>
       ELSE /\ sessions' = [sessions EXCEPT ![id] = toggle_payment(@, now)]
            /\ now' = now + 1
            /\ UNCHANGED in_flight
            /\ last' = Response("toggle_session_payment", [session_id |-> id], "session",
                                id, HTTP_200_OK)
    /\ UNCHANGED <<groups, payments, clients, exercise_vars>>

(* start_active_session without the branch on one client id: a group is  *)
(* created for every list of client ids.                                  *)
start_active_session_always_group(t, sid, cids) ==
    /\ now < MaxTime
    /\ UNCHANGED <<payments, clients, exercise_vars>>
    /\ sid = NULL
    /\ Len(cids) >= 1
    /\ Len(sessions) + Len(cids) <= MaxSessions
    /\ groups' = Append(groups, [trainer_id |-> t, scheduled_at |-> now])
    /\ sessions' = sessions \o
                     [i \in 1..Len(cids) |->
                        [trainer_id |-> t, client_id |-> cids[i],
                         session_group_id |-> Len(groups) + 1, scheduled_at |-> now,
                         started_at |-> now, status |-> IN_PROGRESS,
                         is_paid |-> FALSE, paid_at |-> NULL, location_id |-> NULL]]
    /\ now' = now + 1
    /\ UNCHANGED in_flight
    /\ last' = [op |-> "start_active_session",
                req |-> [trainer_id |-> t, session_id |-> sid, client_ids |-> cids],
                kind |-> "group", id |-> Len(groups) + 1, code |-> HTTP_201_CREATED]

StartRequest(t, sid, cids) == [trainer_id |-> t, session_id |-> sid, client_ids |-> cids]

(* StartActiveSessionRequest: client_ids min_length=1 *)
StartActiveSessionRequestValid(cids) == Len(cids) >= 1

(* start_session that keeps the started_at of a session that has one *)
start_session_keep_started(s, t) ==
    [s EXCEPT !.status = IN_PROGRESS,
              !.started_at = IF s.started_at = NULL THEN t ELSE s.started_at]

(* session.status = IN_PROGRESS; session.started_at = now *)
start_session(s, t) == [s EXCEPT !.status = IN_PROGRESS, !.started_at = t]

(* start_existing that first completes the other sessions of the trainer  *)
(* that are in progress.                                                   *)
start_existing_exclusive(S, sid, t) ==
    [i \in Ids(S) |->
       IF i = sid THEN start_session(S[i], t)
       ELSE IF S[i].trainer_id = S[sid].trainer_id /\ S[i].status = IN_PROGRESS
       THEN [S[i] EXCEPT !.status = COMPLETED]
       ELSE S[i]]

(* The rows after the start of the existing session sid: only that row is  *)
(* written.                                                                *)
start_existing(S, sid, t) == [S EXCEPT ![sid] = start_session(@, t)]

(* StartActiveSessionRequest: duration_minutes default=60, ge=15, le=480 *)
DurationDefault == 60
DurationMin == 15
DurationMax == 480

DurationValid(duration) == duration >= DurationMin /\ duration <= DurationMax

StartRequestWith(t, sid, cids, duration) ==
    [trainer_id |-> t, session_id |-> sid, client_ids |-> cids,
     duration_minutes |-> duration]

(* POST /sessions/active/start with every field of the request that is    *)
(* validated.                                                             *)
start_active_session_with(t, sid, cids, duration) ==
    LET req == StartRequestWith(t, sid, cids, duration)
    IN
    /\ now < MaxTime
    /\ UNCHANGED <<payments, clients, exercise_vars>>
    /\ IF ~(StartActiveSessionRequestValid(cids) /\ DurationValid(duration))
       THEN /\ UNCHANGED in_flight
            /\ last' = Response("start_active_session", req, "none", NULL,
                                HTTP_422_UNPROCESSABLE)
            /\ UNCHANGED <<sessions, groups, now>>
       ELSE IF sid # NULL
       THEN IF sid \notin Ids(sessions)
            THEN /\ UNCHANGED in_flight
                 /\ last' = Response("start_active_session", req, "none", NULL,
                                     HTTP_404_NOT_FOUND)
                 /\ UNCHANGED <<sessions, groups, now>>
            ELSE /\ sessions' = start_existing(sessions, sid, now)
                 /\ now' = now + 1
                 /\ groups' = groups
                 /\ UNCHANGED in_flight
                 /\ last' = Response("start_active_session", req, "session", sid,
                                     HTTP_201_CREATED)
       ELSE IF Len(cids) = 1
       THEN /\ Len(sessions) < MaxSessions
            /\ sessions' = Append(sessions,
                                  TrainingSession(t, cids[1], NULL, now, now, IN_PROGRESS))
            /\ now' = now + 1
            /\ groups' = groups
            /\ UNCHANGED in_flight
            /\ last' = Response("start_active_session", req, "session",
                                Len(sessions) + 1, HTTP_201_CREATED)
       ELSE /\ Len(sessions) + Len(cids) <= MaxSessions
            /\ groups' = Append(groups, SessionGroup(t, now))
            /\ sessions' = sessions \o SessionsFor(t, cids, Len(groups) + 1, now, now,
                                                   IN_PROGRESS)
            /\ now' = now + 1
            /\ UNCHANGED in_flight
            /\ last' = Response("start_active_session", req, "group",
                                Len(groups) + 1, HTTP_201_CREATED)

(* The request that leaves duration_minutes at its default. *)
start_active_session(t, sid, cids) ==
    start_active_session_with(t, sid, cids, DurationDefault)

create_session_group(t, cids, sched) ==
    /\ Len(cids) >= 1
    /\ Len(sessions) + Len(cids) <= MaxSessions
    /\ groups' = Append(groups, SessionGroup(t, sched))
    /\ sessions' = sessions \o SessionsFor(t, cids, Len(groups) + 1, sched, NULL, SCHEDULED)
    /\ UNCHANGED in_flight
    /\ last' = Response("create_session_group", [client_ids |-> cids], "group",
                        Len(groups) + 1, HTTP_201_CREATED)
    /\ UNCHANGED <<payments, now, clients, exercise_vars>>

(* delete_session_group that cancels only the first session of the group *)
delete_session_group_first_only(gid) ==
    /\ IF gid \notin Ids(groups)
       THEN /\ UNCHANGED in_flight
            /\ last' = Response("delete_session_group", [group_id |-> gid], "none", NULL,
                                HTTP_404_NOT_FOUND)
            /\ sessions' = sessions
       ELSE /\ sessions' = [i \in Ids(sessions) |->
                              IF /\ sessions[i].session_group_id = gid
                                 /\ \A j \in 1..(i - 1) : sessions[j].session_group_id # gid
                              THEN [sessions[i] EXCEPT !.status = CANCELLED]
                              ELSE sessions[i]]
            /\ UNCHANGED in_flight
            /\ last' = Response("delete_session_group", [group_id |-> gid], "none", NULL,
                                HTTP_204_NO_CONTENT)
    /\ UNCHANGED <<groups, payments, now, clients, exercise_vars>>

(* DELETE /sessions/groups/{group_id}: cancels every session of the group. *)
delete_session_group(gid) ==
    /\ IF gid \notin Ids(groups)
       THEN /\ UNCHANGED in_flight
            /\ last' = Response("delete_session_group", [group_id |-> gid], "none", NULL,
                                HTTP_404_NOT_FOUND)
            /\ sessions' = sessions
       ELSE /\ sessions' = [i \in Ids(sessions) |->
                              IF sessions[i].session_group_id = gid
                              THEN [sessions[i] EXCEPT !.status = CANCELLED]
                              ELSE sessions[i]]
            /\ UNCHANGED in_flight
            /\ last' = Response("delete_session_group", [group_id |-> gid], "none", NULL,
                                HTTP_204_NO_CONTENT)
    /\ UNCHANGED <<groups, payments, now, clients, exercise_vars>>

(* The rows an ORDER BY col DESC query may return first.  PostgreSQL sorts *)
(* NULL before every value in descending order, and breaks ties freely.   *)
FirstDesc(I, key) ==
    IF \E i \in I : key[i] = NULL
    THEN {i \in I : key[i] = NULL}
    ELSE {i \in I : \A j \in I : key[j] <= key[i]}

(* get_current_session with the end of the window excluded. *)
get_current_session_open_end(S, t, tolerance, n) ==
    LET start_time == n - tolerance
        end_time == n + tolerance
        rows == {i \in Ids(S) : /\ S[i].trainer_id = t
                                /\ S[i].status = SCHEDULED
                                /\ S[i].scheduled_at >= start_time
                                /\ S[i].scheduled_at < end_time}
    IN IF rows = {} THEN {NULL}
       ELSE {i \in rows : \A j \in rows : S[i].scheduled_at <= S[j].scheduled_at}

(* get_current_session at time n: the ids the handler may return, NULL for *)
(* None.  order_by(scheduled_at).first() takes a row with the smallest     *)
(* scheduled_at, any of them when several are equal.                       *)
get_current_session(S, t, tolerance, n) ==
    LET start_time == n - tolerance
        end_time == n + tolerance
        rows == {i \in Ids(S) : /\ S[i].trainer_id = t
                                /\ S[i].status = SCHEDULED
                                /\ S[i].scheduled_at >= start_time
                                /\ S[i].scheduled_at <= end_time}
    IN IF rows = {} THEN {NULL}
       ELSE {i \in rows : \A j \in rows : S[i].scheduled_at <= S[j].scheduled_at}

(* get_active_session whose group query does not join the child sessions. *)
get_active_session_any_group(S, G, t) ==
    LET standalone == {i \in Ids(S) : /\ S[i].trainer_id = t
                                      /\ S[i].status = IN_PROGRESS
                                      /\ S[i].session_group_id = NULL}
        active_groups == {g \in Ids(G) : G[g].trainer_id = t}
        started == [i \in standalone |-> S[i].started_at]
        scheduled == [g \in active_groups |-> G[g].scheduled_at]
    IN IF standalone # {}
       THEN {[kind |-> "session", id |-> i] : i \in FirstDesc(standalone, started)}
       ELSE IF active_groups # {}
       THEN {[kind |-> "group", id |-> g] : g \in FirstDesc(active_groups, scheduled)}
       ELSE {[kind |-> "null", id |-> NULL]}

(* get_active_session: the set of responses the handler may give. *)
get_active_session(S, G, t) ==
    LET standalone == {i \in Ids(S) : /\ S[i].trainer_id = t
                                      /\ S[i].status = IN_PROGRESS
                                      /\ S[i].session_group_id = NULL}
        active_groups == {g \in Ids(G) : /\ G[g].trainer_id = t
                                         /\ \E i \in Ids(S) :
                                              /\ S[i].session_group_id = g
                                              /\ S[i].status = IN_PROGRESS}
        started == [i \in standalone |-> S[i].started_at]
        scheduled == [g \in active_groups |-> G[g].scheduled_at]
    IN IF standalone # {}
       THEN {[kind |-> "session", id |-> i] : i \in FirstDesc(standalone, started)}
       ELSE IF active_groups # {}
       THEN {[kind |-> "group", id |-> g] : g \in FirstDesc(active_groups, scheduled)}
       ELSE {[kind |-> "null", id |-> NULL]}

----------------------------------------------------------------------------
(* Rows of the exercise tables, keyed by id *)

SessionExercise(sid, gid, tid, setid, name, data, order) ==
    [session_id |-> sid, session_group_id |-> gid, exercise_template_id |-> tid,
     exercise_set_id |-> setid, custom_name |-> name, data |-> data, order_index |-> order]

ExerciseSet(sid, gid, order) ==
    [session_id |-> sid, session_group_id |-> gid, order_index |-> order]

ExerciseTemplate(app) == [trainer_app_id |-> app, usage_count |-> 0]

(* db.add of one row under a fresh id, db.delete of a set of rows *)
Insert(table, id, row) == [i \in DOMAIN table \cup {id} |-> IF i = id THEN row ELSE table[i]]

Delete(table, ids) == [i \in DOMAIN table \ ids |-> table[i]]

(* A request item of an exercise: the fields the schemas carry. *)
ExerciseItem(id, tid, name, data, order) ==
    [id |-> id, exercise_template_id |-> tid, custom_name |-> name, data |-> data,
     order_index |-> order]

(* custom_name = None *)
NO_NAME == "null"

(* The data document of an exercise: whether it has the key lap_times_ms, *)
(* and the list under that key.                                           *)
ExerciseData(has_key, laps) == [has_lap_times_ms |-> has_key, lap_times_ms |-> laps]

NoData == ExerciseData(FALSE, <<>>)

----------------------------------------------------------------------------
(* session_exercises.py *)

(* _verify_session_ownership: 0 when the session is found and owned. *)
verify_session_ownership(sid, tr) ==
    IF sid \notin Ids(sessions) THEN HTTP_404_NOT_FOUND
    ELSE IF sessions[sid].trainer_id # tr THEN HTTP_403_FORBIDDEN
    ELSE 0

(* _verify_group_ownership: 0 when the group is found and owned. *)
verify_group_ownership(gid, tr) ==
    IF gid \notin Ids(groups) THEN HTTP_404_NOT_FOUND
    ELSE IF groups[gid].trainer_id # tr THEN HTTP_403_FORBIDDEN
    ELSE 0

(* attach_template that marks the template as used instead of counting.  *)
attach_template_mark_used(T, tid) ==
    IF tid # NULL /\ tid \in DOMAIN T
    THEN [T EXCEPT ![tid].usage_count = 1]
    ELSE T

(* if exercise_template_id: template = select(...); if template:         *)
(*     template.usage_count += 1                                         *)
attach_template(T, tid) ==
    IF tid # NULL /\ tid \in DOMAIN T
    THEN [T EXCEPT ![tid].usage_count = @ + 1]
    ELSE T

(* The foreign key of session_exercises.exercise_template_id: the flush  *)
(* of a row that names a template that does not exist raises.            *)
template_fk_ok(T, tid) == tid = NULL \/ tid \in DOMAIN T

(* The tables an exercise handler writes, as one value. *)
ExerciseDb ==
    [session_exercises |-> session_exercises, exercise_templates |-> exercise_templates,
     next |-> next_id.session_exercise]

(* One new SessionExercise row: the template is counted, the row is added. *)
add_item(db, sid, gid, setid, item) ==
    [session_exercises |->
         Insert(db.session_exercises, db.next,
                SessionExercise(sid, gid, item.exercise_template_id, setid,
                                item.custom_name, item.data, item.order_index)),
     exercise_templates |-> attach_template(db.exercise_templates, item.exercise_template_id),
     next |-> db.next + 1]

(* The handler leaves the tables as db. *)
commit_exercises(db) ==
    /\ db.next <= MaxExercises + 1
    /\ session_exercises' = db.session_exercises
    /\ exercise_templates' = db.exercise_templates
    /\ next_id' = [next_id EXCEPT !.session_exercise = db.next]

(* The effect of adding one exercise row to the tables. *)
add_exercise(sid, gid, setid, item) ==
    /\ commit_exercises(add_item(ExerciseDb, sid, gid, setid, item))
    /\ exercise_sets' = exercise_sets

create_session_exercise(tr, session_id, item) ==
    LET req == [trainer_id |-> tr, session_id |-> session_id, item |-> item]
    IN
    /\ UNCHANGED <<sessions, groups, payments, now, clients>>
    /\ IF verify_session_ownership(session_id, tr) # 0
       THEN /\ UNCHANGED in_flight
            /\ last' = Response("create_session_exercise", req, "none", NULL,
                                verify_session_ownership(session_id, tr))
            /\ UNCHANGED exercise_vars
       ELSE IF ~template_fk_ok(exercise_templates, item.exercise_template_id)
       THEN /\ UNCHANGED in_flight
            /\ last' = Response("create_session_exercise", req, "none", NULL,
                                HTTP_500_INTERNAL)
            /\ UNCHANGED exercise_vars
       ELSE /\ add_exercise(session_id, NULL, NULL, item)
            /\ UNCHANGED in_flight
            /\ last' = Response("create_session_exercise", req, "session_exercise",
                                next_id.session_exercise, HTTP_201_CREATED)

create_session_group_exercise(tr, group_id, item) ==
    LET req == [trainer_id |-> tr, group_id |-> group_id, item |-> item]
    IN
    /\ UNCHANGED <<sessions, groups, payments, now, clients>>
    /\ IF verify_group_ownership(group_id, tr) # 0
       THEN /\ UNCHANGED in_flight
            /\ last' = Response("create_session_group_exercise", req, "none", NULL,
                                verify_group_ownership(group_id, tr))
            /\ UNCHANGED exercise_vars
       ELSE IF ~template_fk_ok(exercise_templates, item.exercise_template_id)
       THEN /\ UNCHANGED in_flight
            /\ last' = Response("create_session_group_exercise", req, "none", NULL,
                                HTTP_500_INTERNAL)
            /\ UNCHANGED exercise_vars
       ELSE /\ add_exercise(NULL, group_id, NULL, item)
            /\ UNCHANGED in_flight
            /\ last' = Response("create_session_group_exercise", req, "session_exercise",
                                next_id.session_exercise, HTTP_201_CREATED)

(* Ownership of an exercise is verified through its parent. *)
verify_exercise_parent(e, tr) ==
    IF e.session_id # NULL THEN verify_session_ownership(e.session_id, tr)
    ELSE IF e.session_group_id # NULL THEN verify_group_ownership(e.session_group_id, tr)
    ELSE 0

(* SessionExerciseUpdate: the template id and the name of an exercise. *)
update_session_exercise(tr, exercise_id, tid, name) ==
    LET req == [trainer_id |-> tr, exercise_id |-> exercise_id]
    IN
    /\ UNCHANGED <<sessions, groups, payments, now, clients,
                   exercise_templates, exercise_sets, next_id>>
    /\ IF exercise_id \notin DOMAIN session_exercises
       THEN /\ UNCHANGED in_flight
            /\ last' = Response("update_session_exercise", req, "none", NULL,
                                HTTP_404_NOT_FOUND)
            /\ session_exercises' = session_exercises
       ELSE IF verify_exercise_parent(session_exercises[exercise_id], tr) # 0
       THEN /\ UNCHANGED in_flight
            /\ last' = Response("update_session_exercise", req, "none", NULL,
                                verify_exercise_parent(session_exercises[exercise_id], tr))
            /\ session_exercises' = session_exercises
       ELSE IF ~template_fk_ok(exercise_templates, tid)
       THEN /\ UNCHANGED in_flight
            /\ last' = Response("update_session_exercise", req, "none", NULL,
                                HTTP_500_INTERNAL)
            /\ session_exercises' = session_exercises
       ELSE /\ session_exercises' =
                 [session_exercises EXCEPT ![exercise_id].exercise_template_id = tid,
                                           ![exercise_id].custom_name = name]
            /\ UNCHANGED in_flight
            /\ last' = Response("update_session_exercise", req, "session_exercise",
                                exercise_id, HTTP_200_OK)

delete_session_exercise(tr, exercise_id) ==
    LET req == [trainer_id |-> tr, exercise_id |-> exercise_id]
    IN
    /\ UNCHANGED <<sessions, groups, payments, now, clients,
                   exercise_templates, exercise_sets, next_id>>
    /\ IF exercise_id \notin DOMAIN session_exercises
       THEN /\ UNCHANGED in_flight
            /\ last' = Response("delete_session_exercise", req, "none", NULL,
                                HTTP_404_NOT_FOUND)
            /\ session_exercises' = session_exercises
       ELSE IF verify_exercise_parent(session_exercises[exercise_id], tr) # 0
       THEN /\ UNCHANGED in_flight
            /\ last' = Response("delete_session_exercise", req, "none", NULL,
                                verify_exercise_parent(session_exercises[exercise_id], tr))
            /\ session_exercises' = session_exercises
       ELSE /\ session_exercises' = Delete(session_exercises, {exercise_id})
            /\ UNCHANGED in_flight
            /\ last' = Response("delete_session_exercise", req, "none", NULL,
                                HTTP_204_NO_CONTENT)

----------------------------------------------------------------------------
(* exercise_sets.py *)

(* for exercise_data in set_data.exercises: count the template, add the row *)
RECURSIVE add_items(_, _, _, _, _)
add_items(db, sid, gid, setid, items) ==
    IF items = <<>> THEN db
    ELSE add_items(add_item(db, sid, gid, setid, Head(items)), sid, gid, setid, Tail(items))

(* Every template id that a list of items names exists. *)
items_fk_ok(T, items) ==
    \A k \in DOMAIN items : template_fk_ok(T, items[k].exercise_template_id)

(* next_order: one more than the highest order_index of the parent's sets *)
next_set_order(sets) ==
    IF sets = {} THEN 0
    ELSE 1 + CHOOSE m \in {exercise_sets[i].order_index : i \in sets} :
               \A i \in sets : exercise_sets[i].order_index <= m

(* The effect of creating a set with its exercises under one parent. *)
add_exercise_set(sid, gid, items) ==
    LET set_id == next_id.exercise_set
        siblings == {i \in DOMAIN exercise_sets :
                       IF sid # NULL THEN exercise_sets[i].session_id = sid
                       ELSE exercise_sets[i].session_group_id = gid}
        db == add_items(ExerciseDb, sid, gid, set_id, items)
    IN /\ db.next <= MaxExercises + 1
       /\ exercise_sets' = Insert(exercise_sets, set_id,
                                  ExerciseSet(sid, gid, next_set_order(siblings)))
       /\ session_exercises' = db.session_exercises
       /\ exercise_templates' = db.exercise_templates
       /\ next_id' = [next_id EXCEPT !.exercise_set = @ + 1, !.session_exercise = db.next]

create_exercise_set_for_session(session_id, items) ==
    LET req == [session_id |-> session_id, items |-> items]
    IN
    /\ UNCHANGED <<sessions, groups, payments, now, clients>>
    /\ IF session_id \notin Ids(sessions)
       THEN /\ UNCHANGED in_flight
            /\ last' = Response("create_exercise_set_for_session", req, "none", NULL,
                                HTTP_404_NOT_FOUND)
            /\ UNCHANGED exercise_vars
       ELSE IF ~items_fk_ok(exercise_templates, items)
       THEN /\ UNCHANGED in_flight
            /\ last' = Response("create_exercise_set_for_session", req, "none", NULL,
                                HTTP_500_INTERNAL)
            /\ UNCHANGED exercise_vars
       ELSE /\ add_exercise_set(session_id, NULL, items)
            /\ UNCHANGED in_flight
            /\ last' = Response("create_exercise_set_for_session", req, "exercise_set",
                                next_id.exercise_set, HTTP_201_CREATED)

create_exercise_set_for_group(group_id, items) ==
    LET req == [group_id |-> group_id, items |-> items]
    IN
    /\ UNCHANGED <<sessions, groups, payments, now, clients>>
    /\ IF group_id \notin Ids(groups)
       THEN /\ UNCHANGED in_flight
            /\ last' = Response("create_exercise_set_for_group", req, "none", NULL,
                                HTTP_404_NOT_FOUND)
            /\ UNCHANGED exercise_vars
       ELSE IF ~items_fk_ok(exercise_templates, items)
       THEN /\ UNCHANGED in_flight
            /\ last' = Response("create_exercise_set_for_group", req, "none", NULL,
                                HTTP_500_INTERNAL)
            /\ UNCHANGED exercise_vars
       ELSE /\ add_exercise_set(NULL, group_id, items)
            /\ UNCHANGED in_flight
            /\ last' = Response("create_exercise_set_for_group", req, "exercise_set",
                                next_id.exercise_set, HTTP_201_CREATED)

(* The exercises of a set. *)
existing_ids(E, set_id) == {i \in DOMAIN E : E[i].exercise_set_id = set_id}

(* setattr(exercise, field, value) for the fields of the item that are not None *)
update_item(e, item) ==
    [e EXCEPT !.exercise_template_id = IF item.exercise_template_id # NULL
                                       THEN item.exercise_template_id ELSE @,
              !.custom_name = IF item.custom_name # NO_NAME THEN item.custom_name ELSE @]

(* apply_item that creates the new exercise without the parent of the set *)
apply_item_no_parent(db, existing, set_id, parent, item) ==
    IF item.id # NULL /\ item.id \in existing
    THEN [db EXCEPT !.session_exercises[item.id] = update_item(@, item)]
    ELSE add_item(db, NULL, NULL, set_id, item)

(* One item of update_exercise_set_exercises: an item that names an       *)
(* exercise of the set updates it, every other item creates an exercise   *)
(* under the parent of the set.                                           *)
apply_item(db, existing, set_id, parent, item) ==
    IF item.id # NULL /\ item.id \in existing
    THEN [db EXCEPT !.session_exercises[item.id] = update_item(@, item)]
    ELSE add_item(db, parent.session_id, parent.session_group_id, set_id, item)

RECURSIVE apply_items(_, _, _, _, _)
apply_items(db, existing, set_id, parent, items) ==
    IF items = <<>> THEN db
    ELSE apply_items(apply_item(db, existing, set_id, parent, Head(items)),
                     existing, set_id, parent, Tail(items))

update_exercise_set_exercises(set_id, items) ==
    LET req == [set_id |-> set_id, items |-> items]
        existing == existing_ids(session_exercises, set_id)
        updated_ids == {items[k].id : k \in DOMAIN items} \cap existing
        ids_to_delete == existing \ updated_ids
        db == apply_items(ExerciseDb, existing, set_id, exercise_sets[set_id], items)
    IN
    /\ UNCHANGED <<sessions, groups, payments, now, clients, exercise_sets>>
    /\ IF set_id \notin DOMAIN exercise_sets
       THEN /\ UNCHANGED in_flight
            /\ last' = Response("update_exercise_set_exercises", req, "none", NULL,
                                HTTP_404_NOT_FOUND)
            /\ UNCHANGED <<exercise_templates, session_exercises, next_id>>
       ELSE IF ~items_fk_ok(exercise_templates, items)
       THEN /\ UNCHANGED in_flight
            /\ last' = Response("update_exercise_set_exercises", req, "none", NULL,
                                HTTP_500_INTERNAL)
            /\ UNCHANGED <<exercise_templates, session_exercises, next_id>>
       ELSE /\ commit_exercises([db EXCEPT !.session_exercises = Delete(@, ids_to_delete)])
            /\ UNCHANGED in_flight
            /\ last' = Response("update_exercise_set_exercises", req, "exercise_set",
                                set_id, HTTP_200_OK)

(* db.delete(exercise_set): the exercises of the set go with it (cascade). *)
delete_exercise_set(set_id) ==
    LET req == [set_id |-> set_id]
    IN
    /\ UNCHANGED <<sessions, groups, payments, now, clients, exercise_templates, next_id>>
    /\ IF set_id \notin DOMAIN exercise_sets
       THEN /\ UNCHANGED in_flight
            /\ last' = Response("delete_exercise_set", req, "none", NULL, HTTP_404_NOT_FOUND)
            /\ UNCHANGED <<exercise_sets, session_exercises>>
       ELSE /\ exercise_sets' = Delete(exercise_sets, {set_id})
            /\ session_exercises' =
                 Delete(session_exercises, existing_ids(session_exercises, set_id))
            /\ UNCHANGED in_flight
            /\ last' = Response("delete_exercise_set", req, "none", NULL,
                                HTTP_204_NO_CONTENT)

----------------------------------------------------------------------------
(* exercise_templates.py *)

(* _verify_app_ownership: 0 when the app is found and owned. *)
verify_app_ownership(app, tr) ==
    IF app \notin Apps THEN HTTP_404_NOT_FOUND
    ELSE IF AppTrainer(app) # tr THEN HTTP_403_FORBIDDEN
    ELSE 0

create_exercise_template(tr, app) ==
    LET req == [trainer_id |-> tr, trainer_app_id |-> app]
    IN
    /\ UNCHANGED <<sessions, groups, payments, now, clients, exercise_sets,
                   session_exercises>>
    /\ IF verify_app_ownership(app, tr) # 0
       THEN /\ UNCHANGED in_flight
            /\ last' = Response("create_exercise_template", req, "none", NULL,
                                verify_app_ownership(app, tr))
            /\ UNCHANGED <<exercise_templates, next_id>>
       ELSE /\ exercise_templates' = Insert(exercise_templates, next_id.exercise_template,
                                            ExerciseTemplate(app))
            /\ next_id' = [next_id EXCEPT !.exercise_template = @ + 1]
            /\ UNCHANGED in_flight
            /\ last' = Response("create_exercise_template", req, "exercise_template",
                                next_id.exercise_template, HTTP_201_CREATED)

(* db.delete(template): the exercises that used it are detached (SET NULL). *)
delete_exercise_template(tr, template_id) ==
    LET req == [trainer_id |-> tr, template_id |-> template_id]
    IN
    /\ UNCHANGED <<sessions, groups, payments, now, clients, exercise_sets, next_id>>
    /\ IF template_id \notin DOMAIN exercise_templates
       THEN /\ UNCHANGED in_flight
            /\ last' = Response("delete_exercise_template", req, "none", NULL,
                                HTTP_404_NOT_FOUND)
            /\ UNCHANGED <<exercise_templates, session_exercises>>
       ELSE IF verify_app_ownership(exercise_templates[template_id].trainer_app_id, tr) # 0
       THEN /\ UNCHANGED in_flight
            /\ last' = Response("delete_exercise_template", req, "none", NULL,
                                verify_app_ownership(
                                    exercise_templates[template_id].trainer_app_id, tr))
            /\ UNCHANGED <<exercise_templates, session_exercises>>
       ELSE /\ exercise_templates' = Delete(exercise_templates, {template_id})
            /\ session_exercises' =
                 [i \in DOMAIN session_exercises |->
                    IF session_exercises[i].exercise_template_id = template_id
                    THEN [session_exercises[i] EXCEPT !.exercise_template_id = NULL]
                    ELSE session_exercises[i]]
            /\ UNCHANGED in_flight
            /\ last' = Response("delete_exercise_template", req, "none", NULL,
                                HTTP_204_NO_CONTENT)

----------------------------------------------------------------------------
(* sessions.py: lap times *)

(* LapTimesRequest: lap_times_ms min_length=1 *)
LapTimesRequestValid(laps) == Len(laps) >= 1

(* The scalar of an aggregate over no rows (None). *)
NO_ROWS == -2

(* select(func.max(SessionExercise.order_index)).where(session_id == ...): *)
(* None when the session has no exercise.                                  *)
max_order_index(E, session_id) ==
    LET rows == {i \in DOMAIN E : E[i].session_id = session_id}
    IN IF rows = {} THEN NO_ROWS
       ELSE CHOOSE m \in {E[i].order_index : i \in rows} :
                \A i \in rows : E[i].order_index <= m

(* max_order = result.scalar() or -1: None and 0 are both replaced by -1 *)
scalar_or_minus_one(v) == IF v = NO_ROWS \/ v = 0 THEN -1 ELSE v

(* exercise_data = {"lap_times_ms": data.lap_times_ms, ...} *)
lap_times_data(client_id, laps) == ExerciseData(TRUE, laps)

save_lap_times(session_id, client_id, laps) ==
    LET req == [session_id |-> session_id, client_id |-> client_id, lap_times_ms |-> laps]
        max_order == scalar_or_minus_one(max_order_index(session_exercises, session_id))
    IN
    /\ UNCHANGED <<sessions, groups, payments, now, clients>>
    /\ IF ~LapTimesRequestValid(laps)
       THEN /\ UNCHANGED in_flight
            /\ last' = Response("save_lap_times", req, "none", NULL, HTTP_422_UNPROCESSABLE)
            /\ UNCHANGED exercise_vars
       ELSE IF session_id \notin Ids(sessions)
       THEN /\ UNCHANGED in_flight
            /\ last' = Response("save_lap_times", req, "none", NULL, HTTP_404_NOT_FOUND)
            /\ UNCHANGED exercise_vars
       ELSE /\ add_exercise(session_id, NULL, NULL,
                            ExerciseItem(NULL, NULL, LAP_TIMES_NAME,
                                         lap_times_data(client_id, laps), max_order + 1))
            /\ UNCHANGED in_flight
            /\ last' = Response("save_lap_times", req, "session_exercise",
                                next_id.session_exercise, HTTP_200_OK)

----------------------------------------------------------------------------
(* clients.py: lap times by location *)

(* The rows of the query: the exercises named "Toma de Tiempo BMX" joined  *)
(* to the sessions of the client.                                          *)
lap_time_rows(S, E, c) ==
    {e \in DOMAIN E : /\ E[e].session_id \in Ids(S)
                      /\ S[E[e].session_id].client_id = c
                      /\ E[e].custom_name = LAP_TIMES_NAME}

(* row.data.get("lap_times_ms", []) *)
row_lap_times(data) == IF data.has_lap_times_ms THEN data.lap_times_ms ELSE <<>>

(* The lists of a set of rows, one after the other.  The rows of a session *)
(* come in the order of the store; the statistics do not depend on it.     *)
RECURSIVE extend_all(_, _)
extend_all(E, rows) ==
    IF rows = {} THEN <<>>
    ELSE LET e == CHOOSE x \in rows : \A y \in rows : x <= y
         IN row_lap_times(E[e].data) \o extend_all(E, rows \ {e})

(* min(times) of a list that is not empty *)
RECURSIVE SeqMin(_)
SeqMin(q) == IF Len(q) = 1 THEN q[1] ELSE Min(Head(q), SeqMin(Tail(q)))

(* int(a / n): the quotient rounded toward zero *)
int_div(a, n) == IF a >= 0 THEN a \div n ELSE -((-a) \div n)

(* The statistics with the mean rounded up. *)
lap_stats_ceil(times) ==
    [total_laps |-> Len(times),
     best_time_ms |-> SeqMin(times),
     average_time_ms |-> -int_div(-SeqSum(times) - Len(times) + 1, Len(times))]

(* total_laps, best_time_ms and average_time_ms of a list that is not empty *)
lap_stats(times) ==
    [total_laps |-> Len(times),
     best_time_ms |-> SeqMin(times),
     average_time_ms |-> int_div(SeqSum(times), Len(times))]

(* SessionLapTimes of one session of a location *)
SessionLapTimes(S, E, sid, rows) ==
    LET session_times == extend_all(E, {e \in rows : E[e].session_id = sid})
        stats == lap_stats(session_times)
    IN [session_id |-> sid,
        recorded_at |-> S[sid].scheduled_at,
        lap_times_ms |-> session_times,
        total_laps |-> stats.total_laps,
        best_time_ms |-> stats.best_time_ms,
        average_time_ms |-> stats.average_time_ms]

(* if session_times: the sessions of a location that get an entry *)
sessions_with_times(E, rows) ==
    {sid \in {E[e].session_id : e \in rows} :
       extend_all(E, {e \in rows : E[e].session_id = sid}) # <<>>}

(* sessions.sort(key=recorded_at, reverse=True): the entries in every order *)
(* the sort may give, entries of equal recorded_at in the order of the     *)
(* store.                                                                  *)
sort_recorded_at_desc(entries) ==
    {q \in [1..Cardinality(entries) -> entries] :
       /\ \A i, j \in DOMAIN q : i # j => q[i] # q[j]
       /\ \A i, j \in DOMAIN q : i < j => q[i].recorded_at >= q[j].recorded_at}

(* LocationLapTimes of one location whose all_times is not empty: the      *)
(* entries the handler may build for it.                                   *)
LocationLapTimes(S, E, loc, rows) ==
    LET all_times == extend_all(E, rows)
        stats == lap_stats(all_times)
        entries == {SessionLapTimes(S, E, sid, rows) : sid \in sessions_with_times(E, rows)}
    IN {[location_id |-> loc,
         total_laps |-> stats.total_laps,
         best_time_ms |-> stats.best_time_ms,
         average_time_ms |-> stats.average_time_ms,
         sessions |-> q] : q \in sort_recorded_at_desc(entries)}

(* The locations of the result with the test "if not all_times: continue"  *)
(* left out for the locations that have a row with the key.                *)
returned_locations_with_key(S, E, rows) ==
    {S[E[e].session_id].location_id : e \in {x \in rows : E[x].data.has_lap_times_ms}}

(* if not all_times: continue: the locations of the result *)
returned_locations(S, E, rows) ==
    {loc \in {S[E[e].session_id].location_id : e \in rows} :
       extend_all(E, {e \in rows : S[E[e].session_id].location_id = loc}) # <<>>}

(* The locations of the elements of the result list. *)
lap_times_locations(S, E, c) == returned_locations(S, E, lap_time_rows(S, E, c))

(* get_client_lap_times_by_location, after the ownership check: the result *)
(* list has one element for each location of the domain, and the element   *)
(* is one of the entries given for it.                                     *)
get_client_lap_times_by_location(S, E, c) ==
    LET rows == lap_time_rows(S, E, c)
    IN [loc \in lap_times_locations(S, E, c) |->
          LocationLapTimes(S, E, loc,
                           {e \in rows : S[E[e].session_id].location_id = loc})]

----------------------------------------------------------------------------
(* clients.py: exercise history *)

(* The value of the query parameter exercise_name when it is absent. *)
NO_FILTER == NO_NAME

(* The rows of the query with the sentinel of the lap times not excluded. *)
history_rows_with_laps(S, E, c, exercise_name) ==
    {e \in DOMAIN E : /\ E[e].session_id \in Ids(S)
                      /\ S[E[e].session_id].client_id = c
                      /\ E[e].custom_name # NO_NAME
                      /\ (exercise_name # NO_FILTER /\ exercise_name # "")
                             => E[e].custom_name = exercise_name}

(* The rows of the query: the named exercises, other than the lap times,   *)
(* joined to the sessions of the client.  "if exercise_name" adds the name *)
(* filter for a name that is neither None nor empty.                       *)
history_rows(S, E, c, exercise_name) ==
    {e \in DOMAIN E : /\ E[e].session_id \in Ids(S)
                      /\ S[E[e].session_id].client_id = c
                      /\ E[e].custom_name # NO_NAME
                      /\ E[e].custom_name # LAP_TIMES_NAME
                      /\ (exercise_name # NO_FILTER /\ exercise_name # "")
                             => E[e].custom_name = exercise_name}

(* order_by(TrainingSession.scheduled_at.desc()): the rows in every order  *)
(* the store may give, rows of equal scheduled_at in any order.            *)
order_by_scheduled_at_desc(S, E, rows) ==
    {q \in [1..Cardinality(rows) -> rows] :
       /\ \A i, j \in DOMAIN q : i # j => q[i] # q[j]
       /\ \A i, j \in DOMAIN q :
            i < j => S[E[q[i]].session_id].scheduled_at >= S[E[q[j]].session_id].scheduled_at}

ExerciseHistoryEntry(S, E, e) ==
    [session_id |-> E[e].session_id,
     date |-> S[E[e].session_id].scheduled_at,
     exercise_name |-> E[e].custom_name,
     data |-> E[e].data]

(* The key by which sorted() compares two names: the code point of the     *)
(* letter of a one-letter name.                                            *)
ord(name) == CASE name = "a" -> 97 [] name = "b" -> 98 [] OTHER -> 0

(* sorted(list(exercises_set)) *)
sorted(names) ==
    CHOOSE q \in [1..Cardinality(names) -> names] :
        \A i, j \in DOMAIN q : i < j => ord(q[i]) < ord(q[j])

(* get_client_exercise_history, after the ownership check: the responses   *)
(* the handler may give.                                                   *)
get_client_exercise_history(S, E, c, exercise_name) ==
    LET rows == history_rows(S, E, c, exercise_name)
        exercises_set == {E[e].custom_name : e \in rows}
    IN {[exercises |-> sorted(exercises_set),
         history |-> [k \in DOMAIN q |-> ExerciseHistoryEntry(S, E, q[k])]] :
          q \in order_by_scheduled_at_desc(S, E, rows)}

----------------------------------------------------------------------------
(* Specifications *)


(* The session lifecycle and the active-session resolver, for trainer 1. *)
UpdateInputs ==
    [client_id : {UNSET}, scheduled_at : {UNSET}, started_at : {UNSET, 1},
     status : {"unset"} \cup SessionStatus]

Next ==
    \/ \E st \in SessionStatus : create_session(1, 1, 1, st)
    \/ \E id \in 1..MaxSessions, data \in UpdateInputs : update_session(id, data)
    \/ \E id \in 1..MaxSessions : delete_session(id)
    \/ \E sid \in 0..MaxSessions, cids \in {<<1>>, <<1, 2>>} :
         start_active_session(1, sid, cids)
    \/ create_session_group(1, <<1, 2>>, 1)
    \/ \E gid \in 1..MaxSessions : delete_session_group(gid)

Spec == Init /\ [][Next]_vars

(* Single and grouped sessions: creation, start and cancellation. *)
NextGroup ==
    \/ \E st \in SessionStatus : create_session(1, 1, 1, st)
    \/ \E id \in 1..MaxSessions : delete_session(id)
    \/ \E sid \in 0..MaxSessions, cids \in {<<1>>, <<1, 2>>} :
         start_active_session(1, sid, cids)
    \/ create_session_group(1, <<1, 2>>, 1)
    \/ \E gid \in 1..MaxSessions : delete_session_group(gid)

SpecGroup == Init /\ [][NextGroup]_vars

(* The payment reconciliation engine, for the clients of trainer 1. *)
ScheduledAtInputs == {1, 2, 3}

NextPay ==
    \/ \E sched \in ScheduledAtInputs, st \in SessionStatus \ {CANCELLED} :
         Len(sessions) < MaxPaySessions /\ create_session(1, 1, sched, st)
    \/ Len(sessions) < MaxPaySessions /\ create_session(1, 2, 1, SCHEDULED)
    \/ \E id \in 1..MaxPaySessions : delete_session(id)
    \/ \E k \in {1, 2}, ok \in BOOLEAN : register_client_payment(1, 1, k, 5, ok)

SpecPay == Init /\ [][NextPay]_vars

(* The balance of client 1 under every writer of is_paid: payments, the *)
(* manual toggle and cancellation.                                      *)
NextBalance ==
    \/ \E sched \in {1, 2}, st \in SessionStatus \ {CANCELLED} :
         Len(sessions) < MaxPaySessions /\ create_session(1, 1, sched, st)
    \/ Len(sessions) < MaxPaySessions /\ create_session(1, 2, 1, SCHEDULED)
    \/ \E id \in 1..MaxPaySessions : delete_session(id)
    \/ \E id \in 1..MaxPaySessions : toggle_session_payment(id)
    \/ \E k \in {1, 2} : register_client_payment(1, 1, k, 5, TRUE)

SpecBalance == Init /\ [][NextBalance]_vars

(* Two trainers on the same store: client 1 and the scheduled session      *)
(* belong to trainer 1, client 4 does not exist.  Every request is sent by *)
(* either trainer, with valid and invalid bodies.                          *)
ClientIdInputs == {1, 4}

(* Session 1 is the one session of the store, session 2 does not exist. *)
SessionIdInputs == {1, 2}

SessionsPaidInputs == {0, 1, 101}

AmountCopInputs == {-1, 5}

DurationInputs == {14, 60, 481}

CompleteUpdate ==
    [client_id |-> UNSET, scheduled_at |-> UNSET, started_at |-> UNSET,
     status |-> COMPLETED]

NextTenant ==
    \/ Len(sessions) = 0 /\ create_session(1, 1, 1, SCHEDULED)
    \/ \E tr \in Trainers, c \in ClientIdInputs, k \in SessionsPaidInputs,
           amt \in AmountCopInputs :
         register_client_payment(tr, c, k, amt, TRUE)
    \/ \E tr \in Trainers, c \in ClientIdInputs : update_client(tr, c, "b")
    \/ \E tr \in Trainers, c \in ClientIdInputs : delete_client(tr, c)
    \/ \E id \in SessionIdInputs : delete_session(id)
    \/ \E id \in SessionIdInputs : toggle_session_payment(id)
    \/ \E id \in SessionIdInputs : update_session(id, CompleteUpdate)
    \/ \E tr \in Trainers, sid \in {NULL} \cup SessionIdInputs, cids \in {<<>>, <<1>>},
           duration \in DurationInputs :
         start_active_session_with(tr, sid, cids, duration)

SpecTenant == Init /\ [][NextTenant]_vars

(* The sessions of both trainers around the current time, in every status, *)
(* with the clock advanced by the start of a session.                      *)
ToleranceInputs == {-1, 0, 1}

NextCurrent ==
    \/ \E c \in {1, 3}, sched \in 1..MaxTime, st \in SessionStatus :
         Len(sessions) < MaxPaySessions /\ create_session(ClientTrainer(c), c, sched, st)
    \/ \E sid \in 1..MaxPaySessions : start_active_session(1, sid, <<1>>)

SpecCurrent == Init /\ [][NextCurrent]_vars

(* The exercise history of clients 1 and 2 of trainer 1: named exercises,  *)
(* lap times and unnamed exercises on sessions and on a group.             *)
NameInputs == {"a", "b", NO_NAME, LAP_TIMES_NAME}

FilterInputs == {NO_FILTER, "", "a", "b"}

NextHistory ==
    \/ \E c \in {1, 2}, sched \in {1, 2} :
         Len(sessions) < MaxPaySessions /\ create_session(1, c, sched, SCHEDULED)
    \/ Len(groups) = 0 /\ Len(sessions) = 0 /\ create_session_group(1, <<1>>, 1)
    \/ \E sid \in 1..MaxPaySessions, name \in NameInputs :
         create_session_exercise(1, sid, ExerciseItem(NULL, NULL, name, NoData, 0))
    \/ \E name \in {"a"} :
         create_session_group_exercise(1, 1, ExerciseItem(NULL, NULL, name, NoData, 0))

SpecHistory == Init /\ [][NextHistory]_vars

(* Two register-payment requests of trainer 1 for client 1 whose           *)
(* statements interleave, on sessions created before the first of them.    *)
NoRequest == \A r \in Requests : in_flight[r].pc = "idle"

NextConcurrent ==
    \/ \E sched \in {1, 2} :
         /\ Len(sessions) < MaxPaySessions
         /\ NoRequest /\ Len(payments) = 0
         /\ create_session(1, 1, sched, SCHEDULED)
    \/ \E r \in Requests, k \in {1, 2} : register_client_payment_select(r, 1, 1, k, 5)
    \/ \E r \in Requests : register_client_payment_flush(r)
    \/ \E r \in Requests : register_client_payment_commit(r)

SpecConcurrent == Init /\ [][NextConcurrent]_vars

(* The lap times of client 1: sessions of trainer 1 at no location and at  *)
(* location 1, lap-time records saved by the timer, and exercises created  *)
(* with the same name without lap times or with another name.              *)
LocatedInputs == {<<NULL, 1>>, <<1, 1>>, <<1, 2>>}

LapInputs == {<<5>>, <<4, 7>>}

LapItemInputs ==
    {ExerciseItem(NULL, NULL, LAP_TIMES_NAME, NoData, 0),
     ExerciseItem(NULL, NULL, LAP_TIMES_NAME, ExerciseData(TRUE, <<>>), 0),
     ExerciseItem(NULL, NULL, "a", ExerciseData(TRUE, <<1>>), 0)}

NextLaps ==
    \/ \E x \in LocatedInputs :
         Len(sessions) < MaxPaySessions /\ create_session_at(1, 1, x[1], x[2], SCHEDULED)
    \/ \E sid \in 1..MaxPaySessions, laps \in LapInputs : save_lap_times(sid, 1, laps)
    \/ \E sid \in 1..MaxPaySessions, item \in LapItemInputs :
         create_session_exercise(1, sid, item)

SpecLaps == Init /\ [][NextLaps]_vars


(* The exercise records of a session and of a group of trainer 1, with one *)
(* template and one exercise set.                                         *)
PlainItem(tid) == ExerciseItem(NULL, tid, NO_NAME, NoData, 0)

ItemInputs == {PlainItem(NULL), PlainItem(1)}

(* The item lists of a set request: no item, one item, two items, and one *)
(* that keeps exercise 1.                                                 *)
ItemListInputs ==
    {<<>>, <<PlainItem(1)>>, <<PlainItem(1), PlainItem(1)>>,
     <<ExerciseItem(1, NULL, NO_NAME, NoData, 0), PlainItem(NULL)>>}

NextExercise ==
    \/ Len(sessions) = 0 /\ create_session(1, 1, 1, SCHEDULED)
    \/ Len(groups) = 0 /\ create_session_group(1, <<1, 2>>, 1)
    \/ next_id.exercise_template = 1 /\ create_exercise_template(1, 1)
    \/ delete_exercise_template(1, 1)
    \/ \E item \in ItemInputs : create_session_exercise(1, 1, item)
    \/ \E item \in ItemInputs : create_session_group_exercise(1, 1, item)
    \/ \E id \in 1..MaxExercises : update_session_exercise(1, id, 1, "a")
    \/ \E id \in 1..MaxExercises : delete_session_exercise(1, id)
    \/ \E items \in ItemListInputs :
         next_id.exercise_set = 1 /\ create_exercise_set_for_session(1, items)
    \/ \E items \in ItemListInputs :
         next_id.exercise_set = 1 /\ create_exercise_set_for_group(1, items)
    \/ \E items \in ItemListInputs \ {<<>>} : update_exercise_set_exercises(1, items)
    \/ delete_exercise_set(1)
    \/ save_lap_times(1, 1, <<5>>)

SpecExercise == Init /\ [][NextExercise]_vars

----------------------------------------------------------------------------
(* Properties *)

(* The request served by the step was a register-payment that succeeded. *)
PaymentRegistered(l) ==
    l.op = "register_client_payment" /\ l.code = HTTP_201_CREATED

(* The client's sessions that are unpaid and not cancelled. *)
UnpaidBillable(S, c) ==
    {i \in DOMAIN S : /\ S[i].client_id = c
                      /\ S[i].is_paid = FALSE
                      /\ S[i].status # "cancelled"}

DistinctScheduledAt(S, I) ==
    \A i \in I, j \in I : i # j => S[i].scheduled_at # S[j].scheduled_at

(* The k rows of I with the smallest scheduled_at, when these are distinct. *)
Oldest(S, I, k) ==
    {i \in I : Cardinality({j \in I : S[j].scheduled_at < S[i].scheduled_at}) < k}

(* C1: register payment is FIFO: with N unpaid, non-cancelled sessions of the *)
(* client at distinct scheduled_at and sessions_paid = k < N, after the call  *)
(* exactly the k sessions with the smallest scheduled_at are paid and the     *)
(* other N-k are still unpaid.                                                *)
C1_FifoAllocation ==
    [][PaymentRegistered(last') =>
         LET c == last'.req.client_id
             k == last'.req.sessions_paid
             U == UnpaidBillable(sessions, c)
         IN (k < Cardinality(U) /\ DistinctScheduledAt(sessions, U)) =>
              /\ \A i \in Oldest(sessions, U, k) : sessions'[i].is_paid = TRUE
              /\ \A i \in U \ Oldest(sessions, U, k) : sessions'[i].is_paid = FALSE]_vars

(* C1 witness: a payment for 1 of 2 unpaid sessions at distinct scheduled_at *)
(* was registered: the older one was marked by it, the newer one is unpaid,  *)
(* although the newer one has the smaller id.                                *)
C1_Witness ==
    /\ PaymentRegistered(last)
    /\ last.req.sessions_paid = 1
    /\ \E a, b \in DOMAIN sessions :
         /\ b < a
         /\ sessions[a].scheduled_at < sessions[b].scheduled_at
         /\ \A i \in {a, b} : /\ sessions[i].client_id = last.req.client_id
                              /\ sessions[i].status # "cancelled"
         /\ sessions[a].is_paid /\ sessions[a].paid_at = now - 1
         /\ ~sessions[b].is_paid

(* The client's sessions that count toward the balance. *)
Billable(S, c) ==
    {i \in DOMAIN S : /\ S[i].client_id = c
                      /\ S[i].status \in {"scheduled", "in_progress", "completed"}}

(* The sum of a column over the client's rows of the ledger. *)
RECURSIVE LedgerSessions(_, _, _)
LedgerSessions(P, c, n) ==
    IF n = 0 THEN 0
    ELSE LedgerSessions(P, c, n - 1) + (IF P[n].client_id = c THEN P[n].sessions_paid ELSE 0)

RECURSIVE LedgerAmount(_, _, _)
LedgerAmount(P, c, n) ==
    IF n = 0 THEN 0
    ELSE LedgerAmount(P, c, n - 1) + (IF P[n].client_id = c THEN P[n].amount_cop ELSE 0)

Balance(c) == get_client_payment_balance(sessions, payments, c)

(* C3: register payment is all-or-nothing: when the request ends, either the *)
(* Payment row exists and the selected sessions are marked paid, or, when    *)
(* the marking step failed, neither the row nor any marking is present.      *)
C3_AllOrNothing ==
    [][last'.op = "register_client_payment" =>
         LET c == last'.req.client_id
             k == last'.req.sessions_paid
             U == UnpaidBillable(sessions, c)
             marked == {i \in DOMAIN sessions : ~sessions[i].is_paid /\ sessions'[i].is_paid}
         IN IF last'.code = HTTP_201_CREATED
            THEN /\ Len(payments') = Len(payments) + 1
                 /\ payments'[Len(payments')].client_id = c
                 /\ payments'[Len(payments')].sessions_paid = k
                 /\ marked \subseteq U
                 /\ Cardinality(marked) = IF k < Cardinality(U) THEN k ELSE Cardinality(U)
            ELSE /\ payments' = payments
                 /\ sessions' = sessions]_vars

(* C3 witness: a register-payment request failed while the client had unpaid *)
(* sessions to mark, and the store holds no payment and no marking.          *)
C3_Witness ==
    /\ last.op = "register_client_payment"
    /\ last.code = HTTP_500_INTERNAL
    /\ UnpaidBillable(sessions, last.req.client_id) # {}
    /\ payments = <<>>
    /\ \A i \in DOMAIN sessions : ~sessions[i].is_paid

(* C4 (payment): register payment never sets is_paid on a cancelled session. *)
C4_CancelledNotMarked ==
    last'.op = "register_client_payment" =>
        \A i \in DOMAIN sessions :
            sessions[i].status = "cancelled" => sessions'[i].is_paid = sessions[i].is_paid

(* C4 (balance): the balance counts only scheduled, in_progress and          *)
(* completed sessions, whatever the is_paid flag of a cancelled session.     *)
C4_CancelledNotCounted ==
    \A c \in Clients :
        /\ Balance(c).total_sessions = Cardinality(Billable(sessions, c))
        /\ Balance(c).paid_sessions =
             Cardinality({i \in Billable(sessions, c) : sessions[i].is_paid})
        /\ Balance(c).unpaid_sessions =
             Cardinality({i \in Billable(sessions, c) : ~sessions[i].is_paid})

(* C4: cancelled sessions never consume payment or count toward balance.     *)
C4_CancelledExcluded ==
    /\ []C4_CancelledNotCounted
    /\ [][C4_CancelledNotMarked]_vars

(* C4 witness: a payment was registered while the client's oldest unpaid     *)
(* session was cancelled: the later session was marked, the cancelled one    *)
(* was not, and the balance counts one session of the two.                   *)
C4_Witness ==
    /\ PaymentRegistered(last)
    /\ \E i, j \in DOMAIN sessions :
         /\ sessions[i].client_id = last.req.client_id
         /\ sessions[j].client_id = last.req.client_id
         /\ sessions[i].status = "cancelled" /\ ~sessions[i].is_paid
         /\ sessions[i].scheduled_at < sessions[j].scheduled_at
         /\ sessions[j].is_paid /\ sessions[j].paid_at = now - 1
    /\ Balance(last.req.client_id).total_sessions = 1
    /\ Balance(last.req.client_id).paid_sessions = 1

(* C6: for every client the balance satisfies unpaid = total - paid,          *)
(* prepaid = max(0, sum of sessions_paid over the client's payments - total), *)
(* has_positive_balance iff prepaid > 0, and total_amount_paid_cop = sum of   *)
(* amount_cop over the client's payments.                                     *)
C6_BalanceIdentities ==
    \A c \in Clients :
        LET b == Balance(c)
            paid_for == LedgerSessions(payments, c, Len(payments))
        IN /\ b.unpaid_sessions = b.total_sessions - b.paid_sessions
           /\ b.prepaid_sessions =
                (IF paid_for - b.total_sessions > 0 THEN paid_for - b.total_sessions ELSE 0)
           /\ b.has_positive_balance = (b.prepaid_sessions > 0)
           /\ b.total_amount_paid_cop = LedgerAmount(payments, c, Len(payments))

(* C6 witness: a client with two payments and a session has prepaid credit. *)
C6_Witness ==
    \E c \in Clients :
        /\ Cardinality({i \in DOMAIN payments : payments[i].client_id = c}) = 2
        /\ Balance(c).total_sessions >= 1
        /\ Balance(c).prepaid_sessions >= 1
        /\ Balance(c).paid_sessions >= 1

(* The client has no session row at all. *)
NoSessions(S, c) == \A i \in DOMAIN S : S[i].client_id # c

NoPayments(P, c) == \A i \in DOMAIN P : P[i].client_id # c

ZeroBalance ==
    [total_sessions |-> 0, paid_sessions |-> 0, unpaid_sessions |-> 0,
     prepaid_sessions |-> 0, has_positive_balance |-> FALSE, total_amount_paid_cop |-> 0]

(* A client without sessions and payments has the all-zero balance. *)
C5_EmptyBalance ==
    \A c \in Clients :
        (NoSessions(sessions, c) /\ NoPayments(payments, c)) => Balance(c) = ZeroBalance

(* The payment of n sessions for a client without sessions marks nothing   *)
(* and is followed by a balance with prepaid_sessions = n.                 *)
C5_PrepaidIsN ==
    LET c == last'.req.client_id
        n == last'.req.sessions_paid
        b == get_client_payment_balance(sessions', payments', c)
    IN (PaymentRegistered(last') /\ NoSessions(sessions, c)) =>
         /\ sessions' = sessions
         /\ b.prepaid_sessions = n
         /\ b.has_positive_balance = TRUE
         /\ b.paid_sessions = 0

(* C5 as stated: for a client with no sessions, registering a payment with *)
(* sessions_paid = n marks no session and the following balance reports    *)
(* prepaid_sessions = n, has_positive_balance = true and paid_sessions = 0; *)
(* without sessions and payments the balance is all zero.                  *)
C5_Original ==
    /\ []C5_EmptyBalance
    /\ [][C5_PrepaidIsN]_vars

(* The payment of n sessions for a client without sessions marks nothing   *)
(* and is followed by a balance whose prepaid_sessions is the sum of the   *)
(* client's ledger, which is n when this is the client's first payment.    *)
C5_PrepaidIsLedgerSum ==
    LET c == last'.req.client_id
        n == last'.req.sessions_paid
        b == get_client_payment_balance(sessions', payments', c)
    IN (PaymentRegistered(last') /\ NoSessions(sessions, c)) =>
         /\ sessions' = sessions
         /\ b.prepaid_sessions = LedgerSessions(payments, c, Len(payments)) + n
         /\ NoPayments(payments, c) => b.prepaid_sessions = n
         /\ b.has_positive_balance = TRUE
         /\ b.paid_sessions = 0

(* C5 (amended): prepaid credit is derived from the ledger: for a client   *)
(* with no sessions, a payment of n sessions marks no session and the      *)
(* following balance reports prepaid_sessions = the sum of sessions_paid   *)
(* over all the client's payments (n for the first payment), a positive    *)
(* balance and paid_sessions = 0; without sessions and payments the        *)
(* balance is all zero.                                                    *)
C5_PrepaidFromLedger ==
    /\ []C5_EmptyBalance
    /\ [][C5_PrepaidIsLedgerSum]_vars

(* C5 witness: the second payment of a client without sessions: the        *)
(* prepaid credit is the sum of both payments.                             *)
C5_Witness ==
    /\ PaymentRegistered(last)
    /\ NoSessions(sessions, last.req.client_id)
    /\ Len(payments) = 2
    /\ payments[1].client_id = last.req.client_id
    /\ payments[2].client_id = last.req.client_id
    /\ Balance(last.req.client_id).prepaid_sessions =
         payments[1].sessions_paid + payments[2].sessions_paid
    /\ \E c \in Clients : NoSessions(sessions, c) /\ NoPayments(payments, c)

Toggled(l) ==
    /\ l.op = "toggle_session_payment"
    /\ l.code = HTTP_200_OK

(* The toggle flips is_paid, stamps or clears paid_at, and changes nothing *)
(* else, whatever the status of the session.                               *)
C11_ToggleEffect ==
    (last'.op = "toggle_session_payment" /\ last'.req.session_id \in DOMAIN sessions) =>
        LET id == last'.req.session_id
        IN /\ last'.code = HTTP_200_OK
           /\ sessions'[id].is_paid = ~sessions[id].is_paid
           /\ sessions'[id].paid_at = (IF sessions'[id].is_paid THEN now ELSE NULL)
           /\ sessions'[id].is_paid => sessions'[id].paid_at # NULL
           /\ sessions'[id].status = sessions[id].status
           /\ sessions' = [sessions EXCEPT ![id].is_paid = sessions'[id].is_paid,
                                           ![id].paid_at = sessions'[id].paid_at]
           /\ payments' = payments

(* A second toggle of any session row gives back its is_paid value. *)
C11_ToggleTwice ==
    \A i \in DOMAIN sessions :
        toggle_payment(toggle_payment(sessions[i], now), now + 1).is_paid = sessions[i].is_paid

(* C11: the payment toggle on an existing session flips is_paid, sets      *)
(* paid_at to the current time when the session becomes paid and to null   *)
(* when it becomes unpaid, works in every status and leaves the status     *)
(* unchanged; two consecutive toggles restore the original is_paid.        *)
C11_PaymentToggle ==
    /\ [][C11_ToggleEffect]_vars
    /\ []C11_ToggleTwice

(* C11 witness: the only session, cancelled, was toggled twice in a row:   *)
(* it is unpaid again, paid_at is cleared and it is still cancelled.       *)
C11_Witness ==
    /\ Toggled(last)
    /\ Len(sessions) = 1
    /\ payments = <<>>
    /\ now = 3
    /\ sessions[1].status = "cancelled"
    /\ sessions[1].is_paid = FALSE
    /\ sessions[1].paid_at = NULL

(* The trainer's sessions that are in progress and belong to no group. *)
StandaloneInProgress(t) ==
    {i \in DOMAIN sessions : /\ sessions[i].trainer_id = t
                             /\ sessions[i].status = "in_progress"
                             /\ sessions[i].session_group_id = NULL}

(* The request served last started a new multi-client group. *)
GroupStarted(l) ==
    /\ l.op = "start_active_session"
    /\ l.code = HTTP_201_CREATED
    /\ l.kind = "group"

(* C2: active-session group priority: when a trainer has a standalone      *)
(* session in progress and then starts a multi-client group, the next      *)
(* get-active-session returns the newly started group, not the standalone  *)
(* session.                                                                *)
C2_GroupPriority ==
    (GroupStarted(last) /\ StandaloneInProgress(last.req.trainer_id) # {}) =>
        get_active_session(sessions, groups, last.req.trainer_id) =
            {[kind |-> "group", id |-> last.id]}

(* The step served a start-active-session request without a session id. *)
StartedAdHoc(l) ==
    /\ l.op = "start_active_session"
    /\ l.code = HTTP_201_CREATED
    /\ l.req.session_id = NULL

(* C7: start-active-session without a session id branches on the number of *)
(* client ids: one client id creates one session with session_group_id     *)
(* null and no group; two or more create exactly one group.                *)
C7_SingleOrGroup ==
    [][StartedAdHoc(last') =>
         IF Len(last'.req.client_ids) = 1
         THEN /\ groups' = groups
              /\ Len(sessions') = Len(sessions) + 1
              /\ SubSeq(sessions', 1, Len(sessions)) = sessions
              /\ sessions'[Len(sessions')].session_group_id = NULL
              /\ sessions'[Len(sessions')].client_id = last'.req.client_ids[1]
         ELSE /\ Len(groups') = Len(groups) + 1
              /\ SubSeq(groups', 1, Len(groups)) = groups]_vars

(* C7 witness: after a group was started for two clients, a session was    *)
(* started for one client: it has no group and the group count is still 1. *)
C7_Witness ==
    /\ StartedAdHoc(last)
    /\ Len(last.req.client_ids) = 1
    /\ last.kind = "session"
    /\ sessions[last.id].session_group_id = NULL
    /\ Len(groups) = 1
    /\ \E i, j \in DOMAIN sessions :
         /\ i # j
         /\ sessions[i].session_group_id = 1 /\ sessions[i].started_at # NULL
         /\ sessions[j].session_group_id = 1 /\ sessions[j].started_at # NULL

(* C8: completed and cancelled are terminal: once a session is completed   *)
(* or cancelled, no operation changes its status to a different value.     *)
C8_TerminalStatus ==
    [][\A i \in DOMAIN sessions :
         sessions[i].status \in {"completed", "cancelled"} =>
             sessions'[i].status = sessions[i].status]_vars

(* C9: deleting a session group sets status = cancelled on every session   *)
(* of the group and removes no session row.                                *)
C9_GroupDeleteCancels ==
    [][(last'.op = "delete_session_group" /\ last'.code = HTTP_204_NO_CONTENT) =>
         /\ DOMAIN sessions' = DOMAIN sessions
         /\ \A i \in DOMAIN sessions :
              IF sessions[i].session_group_id = last'.req.group_id
              THEN sessions'[i] = [sessions[i] EXCEPT !.status = "cancelled"]
              ELSE sessions'[i] = sessions[i]]_vars

(* C9 witness: a group of two sessions was deleted next to a standalone    *)
(* session: both children are still there and cancelled, the standalone    *)
(* session is not cancelled.                                               *)
C9_Witness ==
    /\ last.op = "delete_session_group"
    /\ last.code = HTTP_204_NO_CONTENT
    /\ Cardinality({i \in DOMAIN sessions :
                      /\ sessions[i].session_group_id = last.req.group_id
                      /\ sessions[i].status = "cancelled"}) = 2
    /\ \E i \in DOMAIN sessions :
         sessions[i].session_group_id = NULL /\ sessions[i].status # "cancelled"

(* Exactly one of session_id and session_group_id of a row is set. *)
OneParent(row) == (row.session_id # NULL) # (row.session_group_id # NULL)

(* C12: exclusive-or invariant: in every reachable state, every Session    *)
(* Exercise row and every Exercise Set row has exactly one of session_id   *)
(* and session_group_id non-null, over all creation paths.                 *)
C12_ExclusiveOr ==
    /\ \A i \in DOMAIN session_exercises : OneParent(session_exercises[i])
    /\ \A i \in DOMAIN exercise_sets : OneParent(exercise_sets[i])

(* C12 witness: update-set-exercises added an exercise to the set of a     *)
(* group, next to a lap-time record of a session.                          *)
C12_Witness ==
    /\ last.op = "update_exercise_set_exercises"
    /\ last.code = HTTP_200_OK
    /\ \E i \in DOMAIN exercise_sets : exercise_sets[i].session_group_id # NULL
    /\ \E i, j \in DOMAIN session_exercises :
         /\ session_exercises[i].exercise_set_id = last.id
         /\ session_exercises[i].session_group_id # NULL
         /\ session_exercises[i].session_id = NULL
         /\ session_exercises[j].custom_name = LAP_TIMES_NAME
         /\ session_exercises[j].session_id # NULL
         /\ session_exercises[j].session_group_id = NULL

----------------------------------------------------------------------------
(* C13: the payment ledger is append-only.  Every step of every operation  *)
(* leaves each Payment row that exists in place with every field as it     *)
(* was, so the rows only grow, and sum(sessions_paid) and sum(amount_cop)  *)
(* of every client never decrease.                                         *)
C13_LedgerStep ==
    /\ Len(payments') >= Len(payments)
    /\ \A i \in Ids(payments) : payments'[i] = payments[i]
    /\ \A c \in Clients :
         /\ LedgerSessions(payments', c, Len(payments'))
              >= LedgerSessions(payments, c, Len(payments))
         /\ LedgerAmount(payments', c, Len(payments'))
              >= LedgerAmount(payments, c, Len(payments))

C13_LedgerAppendOnly == [][C13_LedgerStep]_vars

(* A client with a payment in the ledger was deleted. *)
C13_Witness ==
    /\ last.op = "delete_client"
    /\ last.code = HTTP_204_NO_CONTENT
    /\ clients[1].deleted_at # NULL
    /\ Len(payments) = 1
    /\ \A i \in Ids(payments) : payments[i].client_id = 1

----------------------------------------------------------------------------
(* The trainer's groups with at least one child session in progress. *)
GroupsInProgress(t) ==
    {g \in DOMAIN groups :
       /\ groups[g].trainer_id = t
       /\ \E i \in DOMAIN sessions : /\ sessions[i].session_group_id = g
                                     /\ sessions[i].status = "in_progress"}

(* C14: get-active-session returns exactly one of a single session, a      *)
(* session group, or null: a session is a standalone in_progress session of *)
(* the trainer, a group is a group of the trainer with an in_progress      *)
(* child, and null is returned exactly when the trainer has neither.       *)
C14_ActiveOrNull ==
    \A t \in Trainers :
      LET R == get_active_session(sessions, groups, t)
          idle == StandaloneInProgress(t) = {} /\ GroupsInProgress(t) = {}
      IN /\ R # {}
         /\ \A r \in R :
              /\ r.kind \in {"session", "group", "null"}
              /\ r.kind = "session" => r.id \in StandaloneInProgress(t)
              /\ r.kind = "group" => r.id \in GroupsInProgress(t)
              /\ r.kind = "null" <=> idle

(* The trainer has a group and sessions, none of them in progress, and the *)
(* answer is null.                                                         *)
C14_Witness ==
    /\ Len(groups) >= 1
    /\ \E i \in DOMAIN sessions : sessions[i].session_group_id = NULL
    /\ \A i \in DOMAIN sessions : sessions[i].status # "in_progress"
    /\ get_active_session(sessions, groups, 1) = {[kind |-> "null", id |-> NULL]}

----------------------------------------------------------------------------
(* The operations on a client and on a session that C15 names. *)
ClientOps == {"register_client_payment", "update_client", "delete_client"}

SessionOps ==
    {"start_active_session", "update_session", "delete_session", "toggle_session_payment"}

(* Trainer a can be the sender of the request as the handler sees it: the  *)
(* handlers of update, delete and toggle read no caller at all.            *)
SentBy(l, a) == ("trainer_id" \in DOMAIN l.req) => l.req.trainer_id = a

TargetsClient(l) == l.op \in ClientOps /\ l.code # HTTP_422_UNPROCESSABLE

TargetsSession(l) ==
    /\ l.op \in SessionOps
    /\ l.code # HTTP_422_UNPROCESSABLE
    /\ l.req.session_id # NULL

(* Every row owned by trainer b is as it was. *)
RowsUnchanged(b) ==
    /\ \A i \in DOMAIN sessions :
         sessions[i].trainer_id = b =>
             i \in DOMAIN sessions' /\ sessions'[i] = sessions[i]
    /\ \A c \in Clients : ClientTrainer(c) = b => clients'[c] = clients[c]
    /\ \A i \in DOMAIN payments :
         payments[i].trainer_id = b =>
             i \in DOMAIN payments' /\ payments'[i] = payments[i]

(* C15: tenant isolation.  A request by trainer a that targets a client or *)
(* a session owned by another trainer b is answered 403 and leaves every   *)
(* row of b unchanged; a request for an id that does not exist is answered *)
(* 404 and changes no row; the balance of another trainer's client is      *)
(* answered 403 and of a missing client 404.                               *)
C15_IsolationStep ==
    /\ TargetsClient(last') =>
         IF last'.req.client_id \notin Clients
         THEN last'.code = HTTP_404_NOT_FOUND
              /\ UNCHANGED <<sessions, groups, payments, clients>>
         ELSE \A a \in Trainers :
                (SentBy(last', a) /\ ClientTrainer(last'.req.client_id) # a) =>
                    /\ last'.code = HTTP_403_FORBIDDEN
                    /\ RowsUnchanged(ClientTrainer(last'.req.client_id))
    /\ TargetsSession(last') =>
         IF last'.req.session_id \notin DOMAIN sessions
         THEN last'.code = HTTP_404_NOT_FOUND
              /\ UNCHANGED <<sessions, groups, payments, clients>>
         ELSE \A a \in Trainers :
                (SentBy(last', a) /\ sessions[last'.req.session_id].trainer_id # a) =>
                    /\ last'.code = HTTP_403_FORBIDDEN
                    /\ RowsUnchanged(sessions[last'.req.session_id].trainer_id)

C15_BalanceIsolated ==
    \A a \in Trainers, c \in ClientIdInputs :
        get_client_payment_balance_status(a, c) =
            IF c \notin Clients THEN HTTP_404_NOT_FOUND
            ELSE IF ClientTrainer(c) # a THEN HTTP_403_FORBIDDEN
            ELSE HTTP_200_OK

C15_TenantIsolation == [][C15_IsolationStep]_vars /\ []C15_BalanceIsolated

----------------------------------------------------------------------------
(* The lap-time records of the client: the exercises named "Toma de Tiempo *)
(* BMX" of the sessions of the client.                                     *)
LapRecords(c) ==
    {e \in DOMAIN session_exercises :
       /\ session_exercises[e].session_id \in DOMAIN sessions
       /\ sessions[session_exercises[e].session_id].client_id = c
       /\ session_exercises[e].custom_name = "Toma de Tiempo BMX"}

(* The lap times of a set of records, each named by its record and its     *)
(* position in the record's lap_times_ms.                                  *)
Laps(records) ==
    UNION {{<<e, k>> : k \in DOMAIN session_exercises[e].data.lap_times_ms} :
             e \in {x \in records : session_exercises[x].data.has_lap_times_ms}}

LapTime(x) == session_exercises[x[1]].data.lap_times_ms[x[2]]

RECURSIVE LapSum(_)
LapSum(L) ==
    IF L = {} THEN 0
    ELSE LET x == CHOOSE y \in L : TRUE IN LapTime(x) + LapSum(L \ {x})

(* r carries the statistics of the lap times L: their number, their        *)
(* minimum, and their mean with the fraction dropped.                      *)
HasStatsOf(r, L) ==
    /\ r.total_laps = Cardinality(L)
    /\ \E x \in L : r.best_time_ms = LapTime(x)
    /\ \A x \in L : r.best_time_ms <= LapTime(x)
    /\ r.average_time_ms * Cardinality(L) <= LapSum(L)
    /\ LapSum(L) < (r.average_time_ms + 1) * Cardinality(L)

RecordsAt(c, loc) ==
    {e \in LapRecords(c) : sessions[session_exercises[e].session_id].location_id = loc}

RecordsOf(c, sid) == {e \in LapRecords(c) : session_exercises[e].session_id = sid}

(* C16: lap-time aggregation.  The entry of a location carries total_laps, *)
(* best_time_ms and average_time_ms over all lap times of the client's     *)
(* "Toma de Tiempo BMX" records at that location; each per-session entry   *)
(* carries the same statistics over the lap times of its session, and the  *)
(* per-session entries are ordered by scheduled_at descending.             *)
C16_LapAggregation ==
    \A c \in Clients :
      LET R == get_client_lap_times_by_location(sessions, session_exercises, c)
      IN \A loc \in DOMAIN R :
           /\ R[loc] # {}
           /\ \A r \in R[loc] :
                /\ r.location_id = loc
                /\ HasStatsOf(r, Laps(RecordsAt(c, loc)))
                /\ \A k \in DOMAIN r.sessions :
                     /\ sessions[r.sessions[k].session_id].location_id = loc
                     /\ r.sessions[k].recorded_at =
                            sessions[r.sessions[k].session_id].scheduled_at
                     /\ HasStatsOf(r.sessions[k],
                                   Laps(RecordsOf(c, r.sessions[k].session_id)))
                /\ \A j, k \in DOMAIN r.sessions :
                     j < k => r.sessions[j].recorded_at >= r.sessions[k].recorded_at

(* Two sessions at location 1 with lap times <<4, 7>> and <<5>>: 3 laps,   *)
(* best 4, mean 16/3 reported as 5, the later session first.               *)
C16_Witness ==
    /\ 1 \in DOMAIN get_client_lap_times_by_location(sessions, session_exercises, 1)
    /\ \E r \in get_client_lap_times_by_location(sessions, session_exercises, 1)[1] :
         /\ r.total_laps = 3
         /\ r.best_time_ms = 4
         /\ r.average_time_ms = 5
         /\ Len(r.sessions) = 2
         /\ r.sessions[1].recorded_at > r.sessions[2].recorded_at
         /\ r.sessions[1].total_laps # r.sessions[2].total_laps

(* The locations at which the client has at least one lap time. *)
LocationsWithLaps(c) ==
    {sessions[session_exercises[x[1]].session_id].location_id : x \in Laps(LapRecords(c))}

(* C17: lap-times-by-location never returns a location or a per-session    *)
(* entry with zero lap times: the locations of the result are those with   *)
(* at least one lap time, a location whose records all have an empty or no *)
(* lap_times_ms is left out, and a client without lap-time records gets an *)
(* empty list.                                                             *)
C17_NoEmptyEntries ==
    \A c \in Clients :
      LET R == get_client_lap_times_by_location(sessions, session_exercises, c)
      IN /\ lap_times_locations(sessions, session_exercises, c) = LocationsWithLaps(c)
         /\ DOMAIN R = LocationsWithLaps(c)
         /\ LapRecords(c) = {} => DOMAIN R = {}
         /\ \A loc \in DOMAIN R : \A r \in R[loc] :
              /\ r.total_laps >= 1
              /\ \A k \in DOMAIN r.sessions : r.sessions[k].total_laps >= 1
              /\ {r.sessions[k].session_id : k \in DOMAIN r.sessions} =
                     {session_exercises[x[1]].session_id :
                        x \in Laps(RecordsAt(c, loc))}

(* The lap-time records of a location have an empty and a missing          *)
(* lap_times_ms, and the location is left out.                             *)
C17_Witness ==
    /\ DOMAIN get_client_lap_times_by_location(sessions, session_exercises, 1) = {}
    /\ \E e \in RecordsAt(1, NULL) : ~session_exercises[e].data.has_lap_times_ms
    /\ \E e \in RecordsAt(1, NULL) :
         /\ session_exercises[e].data.has_lap_times_ms
         /\ session_exercises[e].data.lap_times_ms = <<>>

----------------------------------------------------------------------------
(* The trainer's sessions with status scheduled and scheduled_at within    *)
(* the tolerance of the current time, both bounds included.                *)
InWindow(t, tol) ==
    {i \in DOMAIN sessions : /\ sessions[i].trainer_id = t
                             /\ sessions[i].status = "scheduled"
                             /\ now - tol <= sessions[i].scheduled_at
                             /\ sessions[i].scheduled_at <= now + tol}

(* C18: lookup near-now session returns the session with the smallest      *)
(* scheduled_at among the trainer's scheduled sessions inside the window   *)
(* [now - t, now + t], and null when there is none; it never returns a     *)
(* session that is in_progress, completed or cancelled, or of another      *)
(* trainer.                                                                *)
C18_NearNow ==
    \A t \in Trainers, tol \in ToleranceInputs :
      LET R == get_current_session(sessions, t, tol, now)
      IN /\ R # {}
         /\ (NULL \in R) <=> (InWindow(t, tol) = {})
         /\ \A r \in R \ {NULL} :
              /\ r \in InWindow(t, tol)
              /\ \A j \in InWindow(t, tol) :
                   sessions[r].scheduled_at <= sessions[j].scheduled_at
              /\ sessions[r].status \notin {"in_progress", "completed", "cancelled"}
              /\ sessions[r].trainer_id = t

(* Trainer 1 has a scheduled session exactly at the end of the window and  *)
(* trainer 2 an earlier one inside it: the answer for trainer 1 is its own *)
(* session.                                                                *)
C18_Witness ==
    \E i, j \in DOMAIN sessions :
        /\ sessions[i].trainer_id = 1 /\ sessions[i].status = "scheduled"
        /\ sessions[i].scheduled_at = now + 1
        /\ sessions[j].trainer_id = 2 /\ sessions[j].status = "scheduled"
        /\ sessions[j].scheduled_at = now
        /\ get_current_session(sessions, 1, 1, now) = {i}

----------------------------------------------------------------------------
(* C19: validation precedes mutation.  A register-payment request with     *)
(* sessions_paid < 1 or > 100 or amount_cop < 0 is rejected, creates no    *)
(* Payment row and marks no session; a start-active-session request with   *)
(* an empty client_ids or duration_minutes outside 15..480 is rejected and *)
(* creates no session or group.                                            *)
C19_RejectedStep ==
    /\ (/\ last'.op = "register_client_payment"
        /\ \/ last'.req.sessions_paid < 1
           \/ last'.req.sessions_paid > 100
           \/ last'.req.amount_cop < 0)
           => /\ last'.code = HTTP_422_UNPROCESSABLE
              /\ payments' = payments
              /\ sessions' = sessions
    /\ (/\ last'.op = "start_active_session"
        /\ \/ last'.req.client_ids = <<>>
           \/ last'.req.duration_minutes < 15
           \/ last'.req.duration_minutes > 480)
           => /\ last'.code = HTTP_422_UNPROCESSABLE
              /\ sessions' = sessions
              /\ groups' = groups

C19_ValidationFirst == [][C19_RejectedStep]_vars

(* A payment of 101 sessions by the owner of a client with an unpaid       *)
(* session was rejected: no payment exists and the session is unpaid.      *)
C19_Witness ==
    /\ last.op = "register_client_payment"
    /\ last.code = HTTP_422_UNPROCESSABLE
    /\ last.req.trainer_id = 1
    /\ last.req.client_id = 1
    /\ last.req.sessions_paid = 101
    /\ last.req.amount_cop = 5
    /\ Len(sessions) >= 1
    /\ sessions[1].status = "scheduled"
    /\ ~sessions[1].is_paid
    /\ payments = <<>>

----------------------------------------------------------------------------
(* The Session Exercises created by the step that name the template. *)
CreatedWith(tid) ==
    {e \in DOMAIN session_exercises' \ DOMAIN session_exercises :
       session_exercises'[e].exercise_template_id = tid}

(* C20: template usage_count is monotone.  A template starts at 0, every   *)
(* step adds to the usage_count of an existing template exactly the number *)
(* of Session Exercises it creates with that template, and no step         *)
(* decreases it.                                                           *)
C20_UsageStep ==
    /\ \A tid \in DOMAIN exercise_templates' \ DOMAIN exercise_templates :
         exercise_templates'[tid].usage_count = 0
    /\ \A tid \in DOMAIN exercise_templates \cap DOMAIN exercise_templates' :
         /\ exercise_templates'[tid].usage_count =
                exercise_templates[tid].usage_count + Cardinality(CreatedWith(tid))
         /\ exercise_templates'[tid].usage_count >= exercise_templates[tid].usage_count

C20_UsageMonotone == [][C20_UsageStep]_vars

(* Update-set-exercises added an exercise with a template that was already *)
(* attached once: its usage_count is 2 and one exercise names it.          *)
C20_Witness ==
    /\ last.op = "update_exercise_set_exercises"
    /\ last.code = HTTP_200_OK
    /\ 1 \in DOMAIN exercise_templates
    /\ exercise_templates[1].usage_count = 2
    /\ Cardinality({e \in DOMAIN session_exercises :
                      session_exercises[e].exercise_template_id = 1}) = 1

----------------------------------------------------------------------------
(* The name filter is given: the parameter is present and not empty. *)
FilterGiven(f) == f # "null" /\ f # ""

(* The Session Exercises of the client's sessions that have a name other   *)
(* than the lap-time name, and the name of the filter when one is given.   *)
HistoryRecords(c, f) ==
    {e \in DOMAIN session_exercises :
       /\ session_exercises[e].session_id \in DOMAIN sessions
       /\ sessions[session_exercises[e].session_id].client_id = c
       /\ session_exercises[e].custom_name # "null"
       /\ session_exercises[e].custom_name # "Toma de Tiempo BMX"
       /\ FilterGiven(f) => session_exercises[e].custom_name = f}

EntryOf(e) ==
    [session_id |-> session_exercises[e].session_id,
     date |-> sessions[session_exercises[e].session_id].scheduled_at,
     exercise_name |-> session_exercises[e].custom_name,
     data |-> session_exercises[e].data]

(* The names of the model in alphabetical order. *)
Alphabetical == <<"a", "b">>

Before(m, n) ==
    \E i, j \in DOMAIN Alphabetical :
        i < j /\ Alphabetical[i] = m /\ Alphabetical[j] = n

----------------------------------------------------------------------------
(* C22: when several standalone sessions of a trainer are in_progress,     *)
(* get-active-session returns the one with the greatest started_at, also   *)
(* when some in_progress session has started_at unset.                     *)
C22_LatestStarted ==
    \A t \in Trainers :
      LET started == {i \in StandaloneInProgress(t) : sessions[i].started_at # NULL}
      IN (Cardinality(StandaloneInProgress(t)) >= 2 /\ started # {}) =>
           \A r \in get_active_session(sessions, groups, t) :
               /\ r.kind = "session"
               /\ r.id \in started
               /\ \A j \in started :
                    sessions[j].started_at <= sessions[r.id].started_at

----------------------------------------------------------------------------
(* The step served a valid start-active-session request with a session id. *)
StartedById(l) ==
    /\ l.op = "start_active_session"
    /\ l.code # HTTP_422_UNPROCESSABLE
    /\ l.req.session_id # NULL

(* C23: start-active-session with an existing session id moves a scheduled  *)
(* session to in_progress and sets started_at = now, changing no other     *)
(* session; with an id that does not exist it fails with not-found and     *)
(* changes no state; re-starting a session that is in_progress keeps it    *)
(* in_progress and overwrites started_at with the new time.                *)
C23_StartStep ==
    StartedById(last') =>
        LET sid == last'.req.session_id
        IN IF sid \notin DOMAIN sessions
           THEN /\ last'.code = HTTP_404_NOT_FOUND
                /\ UNCHANGED <<sessions, groups, payments, clients, exercise_vars, now>>
           ELSE sessions[sid].status \in {"scheduled", "in_progress"} =>
                  /\ last'.code = HTTP_201_CREATED
                  /\ last'.kind = "session" /\ last'.id = sid
                  /\ DOMAIN sessions' = DOMAIN sessions
                  /\ sessions'[sid] = [sessions[sid] EXCEPT !.status = "in_progress",
                                                             !.started_at = now]
                  /\ now' > now
                  /\ \A i \in DOMAIN sessions \ {sid} : sessions'[i] = sessions[i]
                  /\ groups' = groups

C23_StartById == [][C23_StartStep]_vars

(* The only session was started by id a second time: it is in_progress and *)
(* its started_at is the time of the second request.                       *)
C23_Witness ==
    /\ StartedById(last)
    /\ last.code = HTTP_201_CREATED
    /\ last.req.session_id = 1
    /\ Len(sessions) = 1
    /\ Len(groups) = 0
    /\ sessions[1].status = "in_progress"
    /\ sessions[1].started_at = 2
    /\ now = 3

----------------------------------------------------------------------------
(* C24: start-active-session with n >= 2 client ids creates exactly n      *)
(* Training Sessions, one per listed client id, each in_progress with      *)
(* started_at = scheduled_at = now and session_group_id the id of the one  *)
(* newly created Session Group, and the returned group holds exactly those *)
(* n sessions.                                                             *)
C24_GroupStep ==
    (StartedAdHoc(last') /\ Len(last'.req.client_ids) >= 2) =>
        LET cids == last'.req.client_ids
            n == Len(cids)
            g == last'.id
        IN /\ last'.kind = "group"
           /\ Len(groups') = Len(groups) + 1
           /\ g = Len(groups')
           /\ SubSeq(groups', 1, Len(groups)) = groups
           /\ groups'[g].trainer_id = last'.req.trainer_id
           /\ Len(sessions') = Len(sessions) + n
           /\ SubSeq(sessions', 1, Len(sessions)) = sessions
           /\ \A k \in 1..n :
                /\ sessions'[Len(sessions) + k].client_id = cids[k]
                /\ sessions'[Len(sessions) + k].trainer_id = last'.req.trainer_id
                /\ sessions'[Len(sessions) + k].status = "in_progress"
                /\ sessions'[Len(sessions) + k].started_at = now
                /\ sessions'[Len(sessions) + k].scheduled_at = now
                /\ sessions'[Len(sessions) + k].session_group_id = g
           /\ {i \in DOMAIN sessions' : sessions'[i].session_group_id = g} =
                  (Len(sessions) + 1)..(Len(sessions) + n)

C24_GroupStart == [][C24_GroupStep]_vars

(* After a standalone session of time 1, a group was started for clients 1 *)
(* and 2 at time 2: sessions 2 and 3 are its children.                     *)
C24_Witness ==
    /\ StartedAdHoc(last)
    /\ last.kind = "group"
    /\ last.id = 1
    /\ last.req.client_ids = <<1, 2>>
    /\ Len(sessions) = 3
    /\ sessions[1].session_group_id = NULL
    /\ sessions[1].started_at = 1
    /\ \A i \in {2, 3} :
         /\ sessions[i].session_group_id = 1
         /\ sessions[i].client_id = i - 1
         /\ sessions[i].status = "in_progress"
         /\ sessions[i].started_at = 2
         /\ sessions[i].scheduled_at = 2

----------------------------------------------------------------------------
(* The step served a start-active-session request that started something. *)
Started(l) == l.op = "start_active_session" /\ l.code = HTTP_201_CREATED

(* The session is in progress and the step leaves its status and           *)
(* started_at as they were.                                                *)
KeptInProgress(i) ==
    sessions[i].status = "in_progress" =>
        /\ i \in DOMAIN sessions'
        /\ sessions'[i].status = sessions[i].status
        /\ sessions'[i].started_at = sessions[i].started_at

(* C25 as stated: starting an ad-hoc session or group, or an existing      *)
(* session by id, never changes the status or started_at of any session    *)
(* that is already in_progress.                                            *)
C25_Original ==
    [][Started(last') => \A i \in DOMAIN sessions : KeptInProgress(i)]_vars

(* C25: no single-active exclusivity is enforced: a start never changes    *)
(* the status or started_at of any in_progress session other than the one  *)
(* the request names by id, whose started_at it overwrites.                *)
C25_NoExclusivity ==
    [][Started(last') =>
         \A i \in DOMAIN sessions \ {last'.req.session_id} : KeptInProgress(i)]_vars

(* A session was started by id while another session of the trainer, started *)
(* earlier, was in progress: both are in progress and the earlier one has  *)
(* kept its started_at.                                                    *)
C25_Witness ==
    /\ Started(last)
    /\ last.req.session_id # NULL
    /\ \E i \in DOMAIN sessions :
         /\ i # last.req.session_id
         /\ sessions[i].trainer_id = sessions[last.req.session_id].trainer_id
         /\ sessions[i].status = "in_progress"
         /\ sessions[i].started_at # NULL
         /\ sessions[i].started_at < sessions[last.req.session_id].started_at
         /\ sessions[last.req.session_id].status = "in_progress"

----------------------------------------------------------------------------
(* C26: in every reachable state every Training Session has paid_at        *)
(* non-null exactly when is_paid is true, after any sequence of create,    *)
(* start, update, cancel, payment toggle and register payment.             *)
C26_PaidAtIffPaid ==
    \A i \in DOMAIN sessions : (sessions[i].paid_at # NULL) <=> sessions[i].is_paid

(* The completed session of a client with a payment was toggled to unpaid: *)
(* is_paid is false and paid_at is null.                                   *)
C26_Witness ==
    /\ last.op = "toggle_session_payment"
    /\ last.code = HTTP_200_OK
    /\ Len(payments) = 1
    /\ sessions[1].client_id = payments[1].client_id
    /\ sessions[1].status = "completed"
    /\ ~sessions[1].is_paid
    /\ sessions[1].paid_at = NULL
    /\ Len(sessions) = 1

----------------------------------------------------------------------------
(* The rows of sessions that the step changes. *)
ChangedSessions == {i \in DOMAIN sessions : sessions'[i] # sessions[i]}

(* C27: register payment with sessions_paid = k for a client with u unpaid *)
(* non-cancelled sessions marks exactly min(k, u) of them paid and changes *)
(* nothing else: sessions of other clients, sessions already paid and      *)
(* their paid_at, cancelled sessions and every status are as they were.    *)
C27_FrameStep ==
    PaymentRegistered(last') =>
        LET c == last'.req.client_id
            k == last'.req.sessions_paid
            U == UnpaidBillable(sessions, c)
        IN /\ DOMAIN sessions' = DOMAIN sessions
           /\ ChangedSessions \subseteq U
           /\ Cardinality(ChangedSessions) = Min(k, Cardinality(U))
           /\ \A i \in ChangedSessions :
                sessions'[i] = [sessions[i] EXCEPT !.is_paid = TRUE, !.paid_at = now]
           /\ \A i \in DOMAIN sessions : sessions'[i].status = sessions[i].status
           /\ groups' = groups
           /\ clients' = clients
           /\ SubSeq(payments', 1, Len(payments)) = payments

C27_RegisterFrame == [][C27_FrameStep]_vars

(* A payment for 2 sessions of client 1, who had one unpaid session: that  *)
(* session was marked, and the unpaid session of client 2 was not.         *)
C27_Witness ==
    /\ PaymentRegistered(last)
    /\ last.req.client_id = 1
    /\ last.req.sessions_paid = 2
    /\ Len(sessions) = 2
    /\ \E i, j \in DOMAIN sessions :
         /\ sessions[i].client_id = 1
         /\ sessions[i].is_paid /\ sessions[i].paid_at = now - 1
         /\ sessions[j].client_id = 2
         /\ ~sessions[j].is_paid /\ sessions[j].status = "scheduled"


\* ---------------------------------------------------------------------
\* C28: prepaid credit and debt never coexist: whenever the payment
\* balance of a client reports prepaid_sessions > 0 (has_positive_balance
\* true) it reports unpaid_sessions = 0, also after a session is created
\* for a client who paid in advance.
C28_NoCreditWithDebt ==
    \A c \in {1, 2} :
        LET b == get_client_payment_balance(sessions, payments, c)
        IN (b.prepaid_sessions > 0 /\ b.has_positive_balance) => b.unpaid_sessions = 0


\* ---------------------------------------------------------------------
\* C29: two register-payment requests for the same client, for k1 and k2
\* sessions, whose statements interleave while at least k1 + k2 unpaid
\* non-cancelled sessions of the client exist, leave exactly k1 + k2
\* sessions marked paid, the oldest ones, as when one request runs after
\* the other.
PaidOf(c) == {i \in DOMAIN sessions : sessions[i].client_id = c /\ sessions[i].is_paid}

C29_ConcurrentPayments ==
    (/\ NoRequest
     /\ Len(payments) = 2
     /\ payments[1].client_id = 1 /\ payments[2].client_id = 1
     /\ payments[1].sessions_paid + payments[2].sessions_paid
            <= Cardinality(sessions_query(sessions, 1)))
    => /\ Cardinality(PaidOf(1)) = payments[1].sessions_paid + payments[2].sessions_paid
       /\ \A i \in PaidOf(1), j \in sessions_query(sessions, 1) \ PaidOf(1) :
              sessions[i].scheduled_at <= sessions[j].scheduled_at


\* ---------------------------------------------------------------------
\* C30: save lap times gives the new session exercise an order_index
\* strictly greater than the order_index of every exercise already
\* attached to the session, and 0 when the session has none, so repeated
\* captures on one session get distinct, increasing order_index values.
LapTimesSaved == last'.op = "save_lap_times" /\ last'.code = HTTP_200_OK
                 /\ session_exercises' # session_exercises

C30_OrderStep ==
    LapTimesSaved =>
        LET new == session_exercises'[last'.id]
            old == {i \in DOMAIN session_exercises :
                      session_exercises[i].session_id = last'.req.session_id}
        IN /\ \A i \in old : new.order_index > session_exercises[i].order_index
           /\ old = {} => new.order_index = 0

C30_IncreasingOrderIndex == [][C30_OrderStep]_vars

============================================================================
